---- MODULE Spec2Model ----
(***************************************************************************)
(* Live quiz session engine of collegeHub_BE.                              *)
(*                                                                         *)
(* The model follows src/src/socket/quizHandler.js (the explicit-lock      *)
(* variant) and the REST start action of                                   *)
(* src/src/controllers/quizController.js.  Every socket handler is one     *)
(* action; the asynchronous functions (startQuiz, endQuiz) are cut at      *)
(* their awaits.  JavaScript Maps keep insertion order, so participants    *)
(* is a sequence of participant records in join order.                     *)
(*                                                                         *)
(* What a handler sends back to the requesting socket is a function of the *)
(* state it reads and of its payload: the operators joinReply, lockReply,  *)
(* answerReply and startQuizReply give that event, and the handler's       *)
(* action changes the state only when the reply is no rejection.  The      *)
(* transport's rooms (socket.join) are outside the model.                  *)
(*                                                                         *)
(* A handler that awaits the store before it reads the registry            *)
(* (quiz:join, startQuiz) works on the document it was handed: its status  *)
(* is any status the document has had, since the read may be old by the    *)
(* time the handler resumes.                                               *)
(***************************************************************************)
EXTENDS Integers, Sequences, FiniteSets, TLC

VARIABLES
    db,              \* Quiz documents of the store: quiz id -> document
    members,         \* GroupMembership rows: the users that are group members
    roleOf,          \* role carried by each user's token (socket.user.role)
    quizHandler,     \* TRUE iff app.get("quizHandler") yields the handler
    activeSessions,  \* the registry Map: quiz id -> QuizSession
    timers,          \* pending setTimeout callbacks, per quiz id
    startReqs,       \* startQuiz requests in flight, per quiz id
    announced,       \* number of quiz:announced events sent, per quiz id
    ended            \* quiz:ended broadcasts, per quiz id (leaderboards sent)

vars == <<db, members, roleOf, quizHandler, activeSessions, timers, startReqs,
          announced, ended>>

-----------------------------------------------------------------------------
(* Bounds of the model *)

\* how many ticks the clock may pass a question's deadline before the
\* deadline callback is run by the event loop
MaxLateTicks == 0

\* how many startQuiz requests per quiz may be between quiz.save() and the
\* call of startQuizSession at the same time
MaxPendingStarts == 1

\* how many startQuiz requests per quiz may be so late that the quiz has
\* ended when they write the status or signal the socket side
MaxLateStarts == 0

-----------------------------------------------------------------------------
(* Program constants *)

BETWEEN_QUESTIONS_MS == 3000

\* shortest time limit createQuiz accepts, in seconds
MinTimeLimit == 5

\* the clock is observed in steps of the shortest time limit
TickMs == MinTimeLimit * 1000

Roles == {"STUDENT", "FACULTY", "ADMIN"}

Creator == "u1"
Staff == "u2"
Outsider == "u3"
Users == {Creator, Staff, Outsider}

QuizIds == {"quizA"}

\* a quiz id no document has, and the empty (falsy) quiz id
UnknownQuiz == "nope"
NoQuizId == ""

\* the questions of a stored quiz, as createQuiz validates them
\* (2..6 options, correctIndex within the options, timeLimit in 5..600)
QuizQuestions ==
    <<[options |-> 2, correctIndex |-> 1, timeLimit |-> MinTimeLimit],
      [options |-> 2, correctIndex |-> 0, timeLimit |-> MinTimeLimit]>>

\* values a client may send as selectedIndex
SelectedIndexInputs == -1 .. 2

\* questionTimer = null: no deadline timer is held
NoTimer == -1

-----------------------------------------------------------------------------
(* Helpers to read a quiz document and a session *)

\* quiz.questions[i], i zero-based as in the code
Question(quiz, i) == quiz.questions[i + 1]

QuestionCount(quiz) == Len(quiz.questions)

HasQuestion(quiz, i) == i >= 0 /\ i < QuestionCount(quiz)

\* session.participants.has(userId)
HasParticipant(session, u) ==
    \E k \in 1 .. Len(session.participants) : session.participants[k].userId = u

\* position of userId in the participants Map
PIndex(session, u) ==
    CHOOSE k \in 1 .. Len(session.participants) : session.participants[k].userId = u

\* session.participants.get(userId)
GetParticipant(session, u) == session.participants[PIndex(session, u)]

\* [...session.participants.keys()]
ParticipantIds(session) ==
    [k \in 1 .. Len(session.participants) |-> session.participants[k].userId]

ZeroCounts(n) == [i \in 0 .. n - 1 |-> 0]

-----------------------------------------------------------------------------
(* class QuizSession *)

\* constructor(quiz).  elapsedMs stands for Date.now() - questionStartedAt
\* (the code reads questionStartedAt only in that difference, and only while
\* the question is open); questionTimer holds the handle of the deadline
\* timer;
\* sent counts the room events of this session, by kind and question index,
\* and keeps the payload of the last quiz:question;
\* statsWrites and advances count the writes of questionStats[i] and the
\* advance timers scheduled for question i; endPc is the position of the
\* endQuiz run of this session.
NewSession(quiz) ==
    [quiz |-> quiz,
     participants |-> <<>>,
     currentQuestionIndex |-> -1,
     elapsedMs |-> 0,
     questionTimer |-> NoTimer,
     questionClosed |-> FALSE,
     locked |-> FALSE,
     started |-> FALSE,
     questionStats |-> <<>>,
     creatorId |-> quiz.createdBy,
     sent |-> [participantJoined |-> 0, locked |-> 0, roster |-> <<>>,
               question |-> ZeroCounts(QuestionCount(quiz)),
               result |-> ZeroCounts(QuestionCount(quiz)),
               scoreUpdate |-> 0,
               lastQuestion |-> <<>>],
     statsWrites |-> ZeroCounts(QuestionCount(quiz)),
     advances |-> ZeroCounts(QuestionCount(quiz)),
     endPc |-> "none",
     ranked |-> <<>>,
     snapshot |-> <<>>]

\* addParticipant, were it to admit anew a user who joins again (the
\* participant is dropped and entered afresh)
addParticipantUnguarded(session, u) ==
    [session EXCEPT !.participants =
        Append(SelectSeq(@, LAMBDA p : p.userId # u),
               [userId |-> u, score |-> 0, totalResponseTimeMs |-> 0,
                answers |-> <<>>])]

\* addParticipant(userId): the session afterwards
addParticipant(session, u) ==
    IF ~HasParticipant(session, u)
    THEN [session EXCEPT !.participants =
              Append(@, [userId |-> u, score |-> 0, totalResponseTimeMs |-> 0,
                         answers |-> <<>>])]
    ELSE session

\* recordAnswer returns false, were it to lack the answers.has test
recordAnswerRejectedNoDuplicateGuard(session, u, questionIndex) ==
    \/ ~HasParticipant(session, u)
    \/ ~HasQuestion(session.quiz, questionIndex)

\* recordAnswer returns false
recordAnswerRejected(session, u, questionIndex) ==
    \/ ~HasParticipant(session, u)
    \/ questionIndex \in DOMAIN GetParticipant(session, u).answers
    \/ ~HasQuestion(session.quiz, questionIndex)

\* recordAnswer, were it to add the response time of every answer
recordAnswerTimingEveryAnswer(session, u, questionIndex, selectedIndex, responseTimeMs) ==
    IF recordAnswerRejected(session, u, questionIndex)
    THEN session
    ELSE LET q == Question(session.quiz, questionIndex)
             isCorrect == selectedIndex = q.correctIndex
             k == PIndex(session, u)
             p == session.participants[k]
             answered ==
                 [p EXCEPT !.answers = (questionIndex :>
                     [selectedIndex |-> selectedIndex, isCorrect |-> isCorrect,
                      responseTimeMs |-> responseTimeMs]) @@ @,
                           !.totalResponseTimeMs = @ + responseTimeMs]
         IN [session EXCEPT !.participants[k] =
                IF isCorrect
                THEN [answered EXCEPT !.score = @ + 1]
                ELSE answered]

\* recordAnswer, were it to credit a wrong answer like a correct one
recordAnswerCreditingEveryAnswer(session, u, questionIndex, selectedIndex, responseTimeMs) ==
    IF recordAnswerRejected(session, u, questionIndex)
    THEN session
    ELSE LET q == Question(session.quiz, questionIndex)
             k == PIndex(session, u)
         IN [session EXCEPT
                !.participants[k].answers = (questionIndex :>
                    [selectedIndex |-> selectedIndex,
                     isCorrect |-> selectedIndex = q.correctIndex,
                     responseTimeMs |-> responseTimeMs]) @@ @,
                !.participants[k].score = @ + 1,
                !.participants[k].totalResponseTimeMs = @ + responseTimeMs]

\* recordAnswer(userId, questionIndex, selectedIndex, responseTimeMs):
\* the session afterwards
recordAnswer(session, u, questionIndex, selectedIndex, responseTimeMs) ==
    IF recordAnswerRejected(session, u, questionIndex)
    THEN session
    ELSE LET q == Question(session.quiz, questionIndex)
             isCorrect == selectedIndex = q.correctIndex
             k == PIndex(session, u)
             p == session.participants[k]
             answered ==
                 [p EXCEPT !.answers = (questionIndex :>
                     [selectedIndex |-> selectedIndex, isCorrect |-> isCorrect,
                      responseTimeMs |-> responseTimeMs]) @@ @]
         IN [session EXCEPT !.participants[k] =
                IF isCorrect
                THEN [answered EXCEPT !.score = @ + 1,
                                      !.totalResponseTimeMs = @ + responseTimeMs]
                ELSE answered]

\* isQuestionAnsweredByAll, were it to test the question before
isQuestionAnsweredByAllOffByOne(session, questionIndex) ==
    IF Len(session.participants) = 0
    THEN FALSE
    ELSE \A k \in 1 .. Len(session.participants) :
             questionIndex - 1 \in DOMAIN session.participants[k].answers

\* isQuestionAnsweredByAll(questionIndex)
isQuestionAnsweredByAll(session, questionIndex) ==
    IF Len(session.participants) = 0
    THEN FALSE
    ELSE \A k \in 1 .. Len(session.participants) :
             questionIndex \in DOMAIN session.participants[k].answers

-----------------------------------------------------------------------------
(* Internal helpers: emitQuestion, closeQuestion, endQuiz *)

RECURSIVE SumTo(_, _)
SumTo(f, n) == IF n < 0 THEN 0 ELSE f[n] + SumTo(f, n - 1)

\* sum of a count vector indexed 0 .. n-1
SumCounts(f) == SumTo(f, Cardinality(DOMAIN f) - 1)

\* the participants holding an answer for questionIndex whose selectedIndex is
\* a valid option (the test of the tally loop of closeQuestion)
Tallied(session, questionIndex) ==
    {k \in 1 .. Len(session.participants) :
        /\ questionIndex \in DOMAIN session.participants[k].answers
        /\ LET ans == session.participants[k].answers[questionIndex]
           IN /\ ans.selectedIndex >= 0
              /\ ans.selectedIndex < Question(session.quiz, questionIndex).options}

\* the tally, were every tallied answer counted as correct
QuestionTallyCountingEveryAnswerCorrect(session, questionIndex) ==
    LET n == Question(session.quiz, questionIndex).options
        counted == Tallied(session, questionIndex)
    IN [optionCounts |->
            [o \in 0 .. n - 1 |->
                Cardinality({k \in counted :
                    session.participants[k].answers[questionIndex].selectedIndex = o})],
        correctCount |-> Cardinality(counted)]

\* the tally, were a participant without an answer counted under option 0
QuestionTallyCountingAbsent(session, questionIndex) ==
    LET n == Question(session.quiz, questionIndex).options
        counted == Tallied(session, questionIndex)
        absent == {k \in 1 .. Len(session.participants) :
                      questionIndex \notin DOMAIN session.participants[k].answers}
    IN [optionCounts |->
            [o \in 0 .. n - 1 |->
                Cardinality({k \in counted :
                    session.participants[k].answers[questionIndex].selectedIndex = o})
                + (IF o = 0 THEN Cardinality(absent) ELSE 0)],
        correctCount |->
            Cardinality({k \in counted :
                session.participants[k].answers[questionIndex].isCorrect})]

\* the { optionCounts, correctCount } closeQuestion computes
QuestionTally(session, questionIndex) ==
    LET n == Question(session.quiz, questionIndex).options
        counted == Tallied(session, questionIndex)
    IN [optionCounts |->
            [o \in 0 .. n - 1 |->
                Cardinality({k \in counted :
                    session.participants[k].answers[questionIndex].selectedIndex = o})],
        correctCount |->
            Cardinality({k \in counted :
                session.participants[k].answers[questionIndex].isCorrect})]

\* closeQuestion, were it to lack the questionClosed guard
closeQuestionUnguarded(session) ==
    LET questionIndex == session.currentQuestionIndex
    IN [session EXCEPT
           !.questionClosed = TRUE,
           !.questionStats =
               (questionIndex :> QuestionTally(session, questionIndex)) @@ @,
           !.statsWrites[questionIndex] = @ + 1,
           !.sent.result[questionIndex] = @ + 1,
           !.advances[questionIndex] = @ + 1]

\* closeQuestion(io, session): the session afterwards
closeQuestion(session) ==
    IF session.questionClosed
    THEN session
    ELSE LET questionIndex == session.currentQuestionIndex
         IN [session EXCEPT
                !.questionClosed = TRUE,
                !.questionStats =
                    (questionIndex :> QuestionTally(session, questionIndex)) @@ @,
                !.statsWrites[questionIndex] = @ + 1,
                !.sent.result[questionIndex] = @ + 1,
                !.advances[questionIndex] = @ + 1]

\* closeQuestion's timer, were it to advance past the next question
closeQuestionTimersSkippingQuestion(session, ts) ==
    IF session.questionClosed
    THEN ts
    ELSE Append(ts, [kind |-> "advance",
                     index |-> session.currentQuestionIndex + 2,
                     handle |-> NoTimer,
                     delay |-> BETWEEN_QUESTIONS_MS])

\* closeQuestion(io, session): the pending timers afterwards
closeQuestionTimers(session, ts) ==
    IF session.questionClosed
    THEN ts
    ELSE Append(ts, [kind |-> "advance",
                     index |-> session.currentQuestionIndex + 1,
                     handle |-> NoTimer,
                     delay |-> BETWEEN_QUESTIONS_MS])

\* the comparator, were it to compare the scores alone
RankedBeforeByScoreOnly(a, b) == b.score - a.score < 0

\* comparator of the leaderboard sort: a is placed before b
RankedBefore(a, b) ==
    IF b.score # a.score
    THEN b.score - a.score < 0
    ELSE a.totalResponseTimeMs - b.totalResponseTimeMs < 0

\* stable insertion of p into the sorted sequence s
RECURSIVE InsertRanked(_, _)
InsertRanked(s, p) ==
    IF s = <<>> THEN <<p>>
    ELSE IF RankedBefore(p, Head(s))
         THEN <<p>> \o s
         ELSE <<Head(s)>> \o InsertRanked(Tail(s), p)

\* Array.prototype.sort with the comparator (a stable sort)
RECURSIVE SortRanked(_)
SortRanked(s) ==
    IF s = <<>> THEN <<>>
    ELSE InsertRanked(SortRanked(SubSeq(s, 1, Len(s) - 1)), s[Len(s)])

\* the leaderboard endQuiz builds: sorted, then mapped to rank entries
Ranked(session) ==
    LET sorted == SortRanked(session.participants)
    IN [idx \in 1 .. Len(sorted) |->
            [rank |-> idx,
             userId |-> sorted[idx].userId,
             score |-> sorted[idx].score,
             totalResponseTimeMs |-> sorted[idx].totalResponseTimeMs]]

\* endQuiz(io, session) up to its first await: the leaderboard is built and
\* Quiz.findById is pending
endQuizBegin(session) ==
    [session EXCEPT !.ranked = Ranked(session), !.endPc = "find"]

\* the quiz:question payload, were it to spread the stored question
questionPayloadWithStoredQuestion(quiz, questionIndex) ==
    [quizId |-> quiz.id,
     questionIndex |-> questionIndex,
     totalQuestions |-> QuestionCount(quiz),
     options |-> Question(quiz, questionIndex).options,
     correctIndex |-> Question(quiz, questionIndex).correctIndex,
     timeLimitSeconds |-> Question(quiz, questionIndex).timeLimit]

\* the payload of quiz:question (the text and the labels of the options are
\* not modelled: options is their number)
questionPayload(quiz, questionIndex) ==
    [quizId |-> quiz.id,
     questionIndex |-> questionIndex,
     totalQuestions |-> QuestionCount(quiz),
     options |-> Question(quiz, questionIndex).options,
     timeLimitSeconds |-> Question(quiz, questionIndex).timeLimit]

\* the payload of quiz:question-result for a closed question
questionResultPayload(session, questionIndex) ==
    [quizId |-> session.quiz.id,
     questionIndex |-> questionIndex,
     correctIndex |-> Question(session.quiz, questionIndex).correctIndex,
     optionCounts |-> session.questionStats[questionIndex].optionCounts,
     correctCount |-> session.questionStats[questionIndex].correctCount]

\* handle of the timer an emitQuestion call creates
TimerHandle(session) == SumCounts(session.sent.question)

\* emitQuestion, were it to leave started as it is
emitQuestionLeavingStarted(session, questionIndex) ==
    IF questionIndex >= QuestionCount(session.quiz)
    THEN endQuizBegin(session)
    ELSE LET emitted ==
                 [session EXCEPT
                     !.currentQuestionIndex = questionIndex,
                     !.elapsedMs = 0,
                     !.questionClosed = FALSE,
                     !.sent.question[questionIndex] = @ + 1,
                     !.sent.lastQuestion = questionPayload(session.quiz, questionIndex)]
         IN [emitted EXCEPT !.questionTimer = TimerHandle(emitted)]

\* emitQuestion(io, session, questionIndex): the session afterwards
emitQuestion(session, questionIndex) ==
    IF questionIndex >= QuestionCount(session.quiz)
    THEN endQuizBegin(session)
    ELSE LET emitted ==
                 [session EXCEPT
                     !.currentQuestionIndex = questionIndex,
                     !.elapsedMs = 0,
                     !.questionClosed = FALSE,
                     !.started = TRUE,
                     !.sent.question[questionIndex] = @ + 1,
                     !.sent.lastQuestion = questionPayload(session.quiz, questionIndex)]
         IN [emitted EXCEPT !.questionTimer = TimerHandle(emitted)]

\* emitQuestion(io, session, questionIndex): the pending timers afterwards
emitQuestionTimers(session, ts, questionIndex) ==
    IF questionIndex >= QuestionCount(session.quiz)
    THEN ts
    ELSE Append(ts, [kind |-> "deadline",
                     index |-> questionIndex,
                     handle |-> emitQuestion(session, questionIndex).questionTimer,
                     delay |-> Question(session.quiz, questionIndex).timeLimit * 1000])

\* clearTimeout, were it to leave the timer pending
clearTimeoutLeavingTimer(ts, handle) == ts

\* clearTimeout(handle)
clearTimeout(ts, handle) ==
    IF handle = NoTimer THEN ts ELSE SelectSeq(ts, LAMBDA t : t.handle # handle)

\* the sequence ts without its k-th element
RemoveAt(ts, k) == SubSeq(ts, 1, k - 1) \o SubSeq(ts, k + 1, Len(ts))

-----------------------------------------------------------------------------
(* Initial state *)

\* a stored quiz as createQuiz leaves it; statusLog collects the statuses the
\* document has had
NewQuiz(q) ==
    [id |-> q, createdBy |-> Creator, status |-> "CREATED",
     statusLog |-> {"CREATED"},
     questions |-> QuizQuestions, stats |-> <<>>, participants |-> <<>>]

\* the quiz is created by a student; the second user is a moderator of either
\* kind; the third user is a student outside the quiz's group
\* quizHandler is what app.get("quizHandler") yields: server.js stores
\* io._quizHandler there, which src/src/socket/index.js leaves unset (FALSE);
\* TRUE is the server whose socket module has set it, as server.js expects
Init ==
    /\ db = [q \in QuizIds |-> NewQuiz(q)]
    /\ members = {Creator}
    /\ roleOf \in {[u \in Users |->
                      IF u = Staff THEN r ELSE "STUDENT"] : r \in {"FACULTY", "ADMIN"}}
    /\ quizHandler \in BOOLEAN
    /\ activeSessions = <<>>
    /\ timers = [q \in QuizIds |-> <<>>]
    /\ startReqs = [q \in QuizIds |-> [late |-> 0, saved |-> 0]]
    /\ announced = [q \in QuizIds |-> 0]
    /\ ended = [q \in QuizIds |-> <<>>]

\* activeSessions.has(quizId)
HasSession(q) == q \in DOMAIN activeSessions

\* utils/groupMembership isMember(userId, role, groupId)
isMember(u) ==
    IF roleOf[u] = "FACULTY" \/ roleOf[u] = "ADMIN" THEN TRUE ELSE u \in members

\* the events a handler sends to the requesting socket alone
Error(msg) == [event |-> "quiz:error", message |-> msg]

Joined(count) == [event |-> "quiz:joined", participantCount |-> count]

AnswerAck == [event |-> "quiz:answer-ack"]

\* a handler that ends without a private event
NoReply == [event |-> "none"]

\* the responses of the REST start action
Http(code, msg) == [event |-> code, message |-> msg]

\* quiz ids a client may send
QuizInputs == DOMAIN db \cup {UnknownQuiz, NoQuizId}

\* what a handler that starts with Quiz.findById(quizId) may be given: for a
\* stored quiz a document with any status it has had; no document for
\* another quiz id; or an error of the store
LookupInputs ==
    {[quizId |-> q, seen |-> st, storeOk |-> TRUE] :
        q \in DOMAIN db, st \in {"CREATED", "RUNNING", "ENDED"}}
    \cup [quizId : {UnknownQuiz, NoQuizId}, seen : {"none"}, storeOk : {TRUE}]
    \cup [quizId : DOMAIN db, seen : {"none"}, storeOk : {FALSE}]

\* the document a handler was given can have had that status
Readable(q, seen) == q \in DOMAIN db /\ seen # "none" => seen \in db[q].statusLog

-----------------------------------------------------------------------------
(* REST: POST /api/quiz/:quizId/start *)

\* the response of startQuiz, given the status of the document it read
\* (storeOk: neither Quiz.findById nor quiz.save() threw)
startQuizReply(u, q, seen, storeOk) ==
    IF ~storeOk THEN Http("500", "store error")
    ELSE IF q \notin DOMAIN db THEN Http("404", "Quiz not found.")
    ELSE IF ~(db[q].createdBy = u) /\ roleOf[u] = "STUDENT"
    THEN Http("403", "Only the quiz creator, faculty, or admin can start a quiz.")
    ELSE IF seen # "CREATED"
    THEN Http("400", IF seen = "RUNNING" THEN "Quiz is already RUNNING."
                     ELSE "Quiz is already ENDED.")
    ELSE IF ~isMember(u) THEN Http("403", "You are not a member of this group.")
    ELSE Http("200", "Quiz started.")

\* startQuiz from its entry to the moment the store has applied quiz.save():
\* the status is written whatever it has become since the document was read
StartQuizSave(u, q, seen, storeOk) ==
    /\ Readable(q, seen)
    /\ IF startQuizReply(u, q, seen, storeOk).event = "200"
       THEN /\ startReqs[q].saved < MaxPendingStarts
            /\ db[q].status = "ENDED" => startReqs[q].late < MaxLateStarts
            /\ db' = [db EXCEPT ![q].status = "RUNNING",
                                ![q].statusLog = @ \cup {"RUNNING"}]
            /\ startReqs' = [startReqs EXCEPT
                  ![q].late = IF db[q].status = "ENDED" THEN @ + 1 ELSE @,
                  ![q].saved = @ + 1]
       ELSE UNCHANGED <<db, startReqs>>
    /\ UNCHANGED <<members, roleOf, quizHandler, activeSessions, timers,
                   announced, ended>>

\* the part of a quiz document a session reads: it never changes
QuizDoc(q) == [id |-> q, createdBy |-> db[q].createdBy, questions |-> db[q].questions]

\* startQuizSession, were it to lack the activeSessions.has guard
startQuizSessionUnguarded(sessions, q) ==
    (q :> NewSession(QuizDoc(q))) @@ sessions

\* startQuizSession(quiz): the registry afterwards
startQuizSession(sessions, q) ==
    IF q \in DOMAIN sessions
    THEN sessions
    ELSE sessions @@ (q :> NewSession(QuizDoc(q)))

\* startQuizSession(quiz): the number of quiz:announced events it sends
startQuizSessionAnnounces(sessions, q) ==
    IF q \in DOMAIN sessions THEN 0 ELSE 1

\* startQuiz after quiz.save() has resolved: signals the socket side
StartQuizSignal(q) ==
    /\ startReqs[q].saved > 0
    /\ db[q].status = "ENDED" => startReqs[q].late < MaxLateStarts
    /\ startReqs' = [startReqs EXCEPT
          ![q].saved = @ - 1,
          ![q].late = IF db[q].status = "ENDED" THEN @ + 1 ELSE @]
    /\ IF quizHandler
       THEN /\ activeSessions' = startQuizSession(activeSessions, q)
            /\ announced' = [announced EXCEPT
                                ![q] = @ + startQuizSessionAnnounces(activeSessions, q)]
       ELSE UNCHANGED <<activeSessions, announced>>
    /\ UNCHANGED <<db, members, roleOf, quizHandler, timers, ended>>

-----------------------------------------------------------------------------
(* Socket handlers *)

\* the private event of quiz:join, were it to lack the locked test
joinReplyIgnoringLock(u, q, seen, storeOk) ==
    IF q = NoQuizId THEN Error("quizId is required.")
    ELSE IF ~storeOk THEN Error("store error")
    ELSE IF q \notin DOMAIN db THEN Error("Quiz not found.")
    ELSE IF seen = "ENDED" THEN Error("Quiz has already ended.")
    ELSE IF seen = "CREATED"
    THEN Error("Quiz has not started yet. Wait for the host to open the lobby.")
    ELSE IF ~isMember(u) THEN Error("You are not a member of this group.")
    ELSE IF HasSession(q)
    THEN Joined(Len(addParticipant(activeSessions[q], u).participants))
    ELSE Joined(0)

\* the private event of quiz:join, were a missing session an error
joinReplyRequiringSession(u, q, seen, storeOk) ==
    IF q = NoQuizId THEN Error("quizId is required.")
    ELSE IF ~storeOk THEN Error("store error")
    ELSE IF q \notin DOMAIN db THEN Error("Quiz not found.")
    ELSE IF seen = "ENDED" THEN Error("Quiz has already ended.")
    ELSE IF seen = "CREATED"
    THEN Error("Quiz has not started yet. Wait for the host to open the lobby.")
    ELSE IF ~isMember(u) THEN Error("You are not a member of this group.")
    ELSE IF HasSession(q) /\ activeSessions[q].locked
    THEN Error("Lobby is locked. The quiz has already begun.")
    ELSE IF HasSession(q)
    THEN Joined(Len(addParticipant(activeSessions[q], u).participants))
    ELSE Error("No active lobby found for this quiz.")

\* the private event of quiz:join, were the lock to hold for students only
joinReplyStaffBypassesLock(u, q, seen, storeOk) ==
    IF q = NoQuizId THEN Error("quizId is required.")
    ELSE IF ~storeOk THEN Error("store error")
    ELSE IF q \notin DOMAIN db THEN Error("Quiz not found.")
    ELSE IF seen = "ENDED" THEN Error("Quiz has already ended.")
    ELSE IF seen = "CREATED"
    THEN Error("Quiz has not started yet. Wait for the host to open the lobby.")
    ELSE IF ~isMember(u) THEN Error("You are not a member of this group.")
    ELSE IF HasSession(q) /\ activeSessions[q].locked /\ roleOf[u] = "STUDENT"
    THEN Error("Lobby is locked. The quiz has already begun.")
    ELSE IF HasSession(q)
    THEN Joined(Len(addParticipant(activeSessions[q], u).participants))
    ELSE Joined(0)

\* the private event of quiz:join, given the status of the document
\* Quiz.findById returned (storeOk: it did not throw)
joinReply(u, q, seen, storeOk) ==
    IF q = NoQuizId THEN Error("quizId is required.")
    ELSE IF ~storeOk THEN Error("store error")
    ELSE IF q \notin DOMAIN db THEN Error("Quiz not found.")
    ELSE IF seen = "ENDED" THEN Error("Quiz has already ended.")
    ELSE IF seen = "CREATED"
    THEN Error("Quiz has not started yet. Wait for the host to open the lobby.")
    ELSE IF ~isMember(u) THEN Error("You are not a member of this group.")
    ELSE IF HasSession(q) /\ activeSessions[q].locked
    THEN Error("Lobby is locked. The quiz has already begun.")
    ELSE IF HasSession(q)
    THEN Joined(Len(addParticipant(activeSessions[q], u).participants))
    ELSE Joined(0)

\* the quiz:join handler
JoinHandler(u, q, seen, storeOk) ==
    /\ Readable(q, seen)
    /\ IF joinReply(u, q, seen, storeOk).event = "quiz:joined" /\ HasSession(q)
       THEN LET session == activeSessions[q]
                isNew == ~HasParticipant(session, u)
                added == addParticipant(session, u)
            IN activeSessions' = [activeSessions EXCEPT ![q] =
                   IF isNew
                   THEN [added EXCEPT !.sent.participantJoined = @ + 1]
                   ELSE added]
       ELSE UNCHANGED activeSessions
    /\ UNCHANGED <<db, members, roleOf, quizHandler, timers, startReqs,
                   announced, ended>>

\* the private event of quiz:lock, were it to lack the authorization test
lockReplyWithoutAuthorization(u, q) ==
    IF q = NoQuizId THEN Error("quizId is required.")
    ELSE IF ~HasSession(q) THEN Error("No active lobby found for this quiz.")
    ELSE IF activeSessions[q].locked
    THEN Error("Quiz is already locked and running.")
    ELSE NoReply

\* the private event of quiz:lock, were it to lack the locked test
lockReplyWithoutLockedTest(u, q) ==
    IF q = NoQuizId THEN Error("quizId is required.")
    ELSE IF ~HasSession(q) THEN Error("No active lobby found for this quiz.")
    ELSE IF ~(u = activeSessions[q].creatorId)
            /\ ~(roleOf[u] = "FACULTY" \/ roleOf[u] = "ADMIN")
    THEN Error("Only the quiz creator, faculty, or admin can lock the quiz.")
    ELSE NoReply

\* the private event of quiz:lock
lockReply(u, q) ==
    IF q = NoQuizId THEN Error("quizId is required.")
    ELSE IF ~HasSession(q) THEN Error("No active lobby found for this quiz.")
    ELSE IF activeSessions[q].locked
    THEN Error("Quiz is already locked and running.")
    ELSE IF ~(u = activeSessions[q].creatorId)
            /\ ~(roleOf[u] = "FACULTY" \/ roleOf[u] = "ADMIN")
    THEN Error("Only the quiz creator, faculty, or admin can lock the quiz.")
    ELSE NoReply

\* the quiz:lock handler
LockHandler(u, q) ==
    /\ IF lockReply(u, q) = NoReply
       THEN LET session == activeSessions[q]
                locked == [session EXCEPT
                              !.locked = TRUE,
                              !.sent.locked = @ + 1,
                              !.sent.roster = ParticipantIds(session)]
            IN /\ activeSessions' = [activeSessions EXCEPT ![q] = emitQuestion(locked, 0)]
               /\ timers' = [timers EXCEPT ![q] = emitQuestionTimers(locked, @, 0)]
       ELSE UNCHANGED <<activeSessions, timers>>
    /\ UNCHANGED <<db, members, roleOf, quizHandler, startReqs, announced, ended>>

\* the quiz:answer payloads a client may send, by shape: both indices
\* integers, an index missing (undefined or null), or selectedIndex present
\* but no integer
AnswerPayloads ==
    [shape : {"integers"}, questionIndex : 0 .. Len(QuizQuestions) - 1,
     selectedIndex : SelectedIndexInputs]
    \cup [shape : {"integers"}, questionIndex : {Len(QuizQuestions)}, selectedIndex : {0}]
    \cup [shape : {"missing", "notInteger"}, questionIndex : {0}, selectedIndex : {0}]

\* the quiz:answer commands a client may send: every payload for a stored
\* quiz, one payload for the other quiz ids
AnswerInputs ==
    [quizId : DOMAIN db, payload : AnswerPayloads]
    \cup [quizId : {UnknownQuiz, NoQuizId},
          payload : [shape : {"integers"}, questionIndex : {0}, selectedIndex : {0}]]

\* the private event of quiz:answer, were it to lack the selectedIndex test
answerReplyAcceptingAnySelection(u, q, shape, questionIndex, selectedIndex) ==
    IF q = NoQuizId \/ shape = "missing"
    THEN Error("quizId, questionIndex, and selectedIndex are required.")
    ELSE IF ~HasSession(q) THEN Error("No active quiz session found.")
    ELSE IF ~activeSessions[q].started THEN Error("Questions have not started yet.")
    ELSE IF activeSessions[q].currentQuestionIndex # questionIndex
    THEN Error("Wrong question index - this question is not active.")
    ELSE IF ~HasParticipant(activeSessions[q], u)
    THEN Error("You have not joined this quiz.")
    ELSE IF activeSessions[q].questionClosed
    THEN Error("Time is up for this question.")
    ELSE IF recordAnswerRejected(activeSessions[q], u, questionIndex)
    THEN Error("You have already answered this question.")
    ELSE AnswerAck

\* the private event of quiz:answer, were it to lack the question index test
answerReplyAcceptingAnyIndex(u, q, shape, questionIndex, selectedIndex) ==
    IF q = NoQuizId \/ shape = "missing"
    THEN Error("quizId, questionIndex, and selectedIndex are required.")
    ELSE IF ~HasSession(q) THEN Error("No active quiz session found.")
    ELSE IF ~activeSessions[q].started THEN Error("Questions have not started yet.")
    ELSE IF ~HasParticipant(activeSessions[q], u)
    THEN Error("You have not joined this quiz.")
    ELSE IF activeSessions[q].questionClosed
    THEN Error("Time is up for this question.")
    ELSE IF \/ shape = "notInteger"
            \/ selectedIndex < 0
            \/ selectedIndex >=
                 (IF HasQuestion(activeSessions[q].quiz,
                                 activeSessions[q].currentQuestionIndex)
                  THEN Question(activeSessions[q].quiz,
                                activeSessions[q].currentQuestionIndex).options
                  ELSE 0)
    THEN Error("selectedIndex must be between 0 and "
               \o ToString((IF HasQuestion(activeSessions[q].quiz,
                                           activeSessions[q].currentQuestionIndex)
                            THEN Question(activeSessions[q].quiz,
                                          activeSessions[q].currentQuestionIndex).options
                            ELSE 0) - 1)
               \o ".")
    ELSE IF recordAnswerRejected(activeSessions[q], u, questionIndex)
    THEN Error("You have already answered this question.")
    ELSE AnswerAck

\* the private event of quiz:answer, were it to lack the questionClosed test
answerReplyIgnoringClose(u, q, shape, questionIndex, selectedIndex) ==
    IF q = NoQuizId \/ shape = "missing"
    THEN Error("quizId, questionIndex, and selectedIndex are required.")
    ELSE IF ~HasSession(q) THEN Error("No active quiz session found.")
    ELSE IF ~activeSessions[q].started THEN Error("Questions have not started yet.")
    ELSE IF activeSessions[q].currentQuestionIndex # questionIndex
    THEN Error("Wrong question index - this question is not active.")
    ELSE IF ~HasParticipant(activeSessions[q], u)
    THEN Error("You have not joined this quiz.")
    ELSE IF \/ shape = "notInteger"
            \/ selectedIndex < 0
            \/ selectedIndex >=
                 (IF HasQuestion(activeSessions[q].quiz,
                                 activeSessions[q].currentQuestionIndex)
                  THEN Question(activeSessions[q].quiz,
                                activeSessions[q].currentQuestionIndex).options
                  ELSE 0)
    THEN Error("selectedIndex must be between 0 and "
               \o ToString((IF HasQuestion(activeSessions[q].quiz,
                                           activeSessions[q].currentQuestionIndex)
                            THEN Question(activeSessions[q].quiz,
                                          activeSessions[q].currentQuestionIndex).options
                            ELSE 0) - 1)
               \o ".")
    ELSE IF recordAnswerRejected(activeSessions[q], u, questionIndex)
    THEN Error("You have already answered this question.")
    ELSE AnswerAck

\* the private event of quiz:answer (the dash of the wrong-index message is
\* written as a hyphen)
answerReply(u, q, shape, questionIndex, selectedIndex) ==
    IF q = NoQuizId \/ shape = "missing"
    THEN Error("quizId, questionIndex, and selectedIndex are required.")
    ELSE IF ~HasSession(q) THEN Error("No active quiz session found.")
    ELSE IF ~activeSessions[q].started THEN Error("Questions have not started yet.")
    ELSE IF activeSessions[q].currentQuestionIndex # questionIndex
    THEN Error("Wrong question index - this question is not active.")
    ELSE IF ~HasParticipant(activeSessions[q], u)
    THEN Error("You have not joined this quiz.")
    ELSE IF activeSessions[q].questionClosed
    THEN Error("Time is up for this question.")
    ELSE IF \/ shape = "notInteger"
            \/ selectedIndex < 0
            \/ selectedIndex >=
                 (IF HasQuestion(activeSessions[q].quiz,
                                 activeSessions[q].currentQuestionIndex)
                  THEN Question(activeSessions[q].quiz,
                                activeSessions[q].currentQuestionIndex).options
                  ELSE 0)
    THEN Error("selectedIndex must be between 0 and "
               \o ToString((IF HasQuestion(activeSessions[q].quiz,
                                           activeSessions[q].currentQuestionIndex)
                            THEN Question(activeSessions[q].quiz,
                                          activeSessions[q].currentQuestionIndex).options
                            ELSE 0) - 1)
               \o ".")
    ELSE IF recordAnswerRejected(activeSessions[q], u, questionIndex)
    THEN Error("You have already answered this question.")
    ELSE AnswerAck

\* the quiz:answer handler
AnswerHandler(u, q, shape, questionIndex, selectedIndex) ==
    /\ IF answerReply(u, q, shape, questionIndex, selectedIndex) = AnswerAck
       THEN LET session == activeSessions[q]
                responseTimeMs == session.elapsedMs
                recorded ==
                    recordAnswer(session, u, questionIndex, selectedIndex,
                                 responseTimeMs)
                updated == [recorded EXCEPT !.sent.scoreUpdate = @ + 1]
                stopped == [updated EXCEPT !.questionTimer = NoTimer]
            IN IF /\ isQuestionAnsweredByAll(updated, questionIndex)
                  /\ ~updated.questionClosed
               THEN /\ activeSessions' =
                          [activeSessions EXCEPT ![q] = closeQuestion(stopped)]
                    /\ timers' = [timers EXCEPT ![q] =
                          closeQuestionTimers(stopped,
                              clearTimeout(@, updated.questionTimer))]
               ELSE /\ activeSessions' = [activeSessions EXCEPT ![q] = updated]
                    /\ UNCHANGED timers
       ELSE UNCHANGED <<activeSessions, timers>>
    /\ UNCHANGED <<db, members, roleOf, quizHandler, startReqs, announced, ended>>

-----------------------------------------------------------------------------
(* Time and timer callbacks *)

\* the clock may still advance for quiz q: a timer is waiting for its delay,
\* or the open question's deadline callback is late by less than the bound
CanTick(q) ==
    \/ \E k \in 1 .. Len(timers[q]) : timers[q][k].delay > 0
    \/ /\ HasSession(q)
       /\ activeSessions[q].started
       /\ ~activeSessions[q].questionClosed
       /\ \E k \in 1 .. Len(timers[q]) : timers[q][k].kind = "deadline"
       /\ activeSessions[q].elapsedMs <
              Question(activeSessions[q].quiz,
                       activeSessions[q].currentQuestionIndex).timeLimit * 1000
              + MaxLateTicks * TickMs

\* Date.now() advances by ms for the timers and the open question of q
TickBy(q, ms) ==
    /\ CanTick(q)
    /\ timers' = [timers EXCEPT ![q] =
          [k \in 1 .. Len(@) |->
              [@[k] EXCEPT !.delay = IF @ > ms THEN @ - ms ELSE 0]]]
    /\ IF HasSession(q) /\ activeSessions[q].started /\ ~activeSessions[q].questionClosed
       THEN activeSessions' = [activeSessions EXCEPT ![q].elapsedMs = @ + ms]
       ELSE UNCHANGED activeSessions
    /\ UNCHANGED <<db, members, roleOf, quizHandler, startReqs, announced, ended>>

\* Date.now() advances by one tick
Tick(q) == TickBy(q, TickMs)

\* the callback emitQuestion passes to setTimeout: the session afterwards
deadlineCallback(session) ==
    LET fired == [session EXCEPT !.questionTimer = NoTimer]
    IN IF ~fired.questionClosed THEN closeQuestion(fired) ELSE fired

\* the callback emitQuestion passes to setTimeout: the timers afterwards
deadlineCallbackTimers(session, ts) ==
    LET fired == [session EXCEPT !.questionTimer = NoTimer]
    IN IF ~fired.questionClosed THEN closeQuestionTimers(fired, ts) ELSE ts

\* the deadline timer of a question expires
DeadlineFires(q, k) ==
    /\ k \in 1 .. Len(timers[q])
    /\ timers[q][k].kind = "deadline"
    /\ timers[q][k].delay = 0
    /\ HasSession(q)
    /\ activeSessions' = [activeSessions EXCEPT ![q] = deadlineCallback(@)]
    /\ timers' = [timers EXCEPT ![q] =
          deadlineCallbackTimers(activeSessions[q], RemoveAt(@, k))]
    /\ UNCHANGED <<db, members, roleOf, quizHandler, startReqs, announced, ended>>

\* the pause after a question result is over: emitQuestion(index + 1)
AdvanceFires(q, k) ==
    /\ k \in 1 .. Len(timers[q])
    /\ timers[q][k].kind = "advance"
    /\ timers[q][k].delay = 0
    /\ HasSession(q)
    /\ LET session == activeSessions[q]
           index == timers[q][k].index
       IN /\ activeSessions' = [activeSessions EXCEPT ![q] = emitQuestion(session, index)]
          /\ timers' = [timers EXCEPT ![q] =
                emitQuestionTimers(session, RemoveAt(@, k), index)]
    /\ UNCHANGED <<db, members, roleOf, quizHandler, startReqs, announced, ended>>

-----------------------------------------------------------------------------
(* endQuiz after its first await *)

\* quiz.participants as endQuiz maps it from the session
SnapshotParticipants(session) ==
    [k \in 1 .. Len(session.participants) |->
        [userId |-> session.participants[k].userId,
         score |-> session.participants[k].score,
         totalResponseTimeMs |-> session.participants[k].totalResponseTimeMs,
         answers |-> session.participants[k].answers]]

\* Quiz.findById of endQuiz returns: the document is filled from the session
\* and quiz.save() is called; or findById throws and the catch logs
EndQuizFound(q, ok) ==
    /\ HasSession(q)
    /\ activeSessions[q].endPc = "find"
    /\ LET session == activeSessions[q]
       IN activeSessions' = [activeSessions EXCEPT ![q] =
             IF ok
             THEN [session EXCEPT
                      !.endPc = "save",
                      !.snapshot = [stats |-> session.questionStats,
                                    participants |-> SnapshotParticipants(session)]]
             ELSE [session EXCEPT !.endPc = "failed"]]
    /\ UNCHANGED <<db, members, roleOf, quizHandler, timers, startReqs,
                   announced, ended>>

\* the store applies the save of endQuiz; or the save throws and the catch logs
EndQuizSave(q, ok) ==
    /\ HasSession(q)
    /\ activeSessions[q].endPc = "save"
    /\ IF ok
       THEN /\ db' = [db EXCEPT ![q].status = "ENDED",
                                ![q].statusLog = @ \cup {"ENDED"},
                                ![q].stats = activeSessions[q].snapshot.stats,
                                ![q].participants =
                                    activeSessions[q].snapshot.participants]
            /\ activeSessions' = [activeSessions EXCEPT ![q].endPc = "saved"]
       ELSE /\ activeSessions' = [activeSessions EXCEPT ![q].endPc = "failed"]
            /\ UNCHANGED db
    /\ UNCHANGED <<members, roleOf, quizHandler, timers, startReqs, announced, ended>>

\* (mutant) the registry is emptied instead of losing one entry
DeleteSessionClearingRegistry(sessions, q) == <<>>

\* activeSessions.delete(quizId)
DeleteSession(sessions, q) == [x \in DOMAIN sessions \ {q} |-> sessions[x]]

\* endQuiz after quiz.save() has resolved: quiz:ended is broadcast and the
\* session leaves the registry
EndQuizFinish(q) ==
    /\ HasSession(q)
    /\ activeSessions[q].endPc = "saved"
    /\ ended' = [ended EXCEPT ![q] = Append(@, activeSessions[q].ranked)]
    /\ activeSessions' = DeleteSession(activeSessions, q)
    /\ UNCHANGED <<db, members, roleOf, quizHandler, timers, startReqs, announced>>

-----------------------------------------------------------------------------
(* The system *)

Next ==
    \/ \E u \in Users, c \in LookupInputs :
          StartQuizSave(u, c.quizId, c.seen, c.storeOk)
    \/ \E q \in DOMAIN db : StartQuizSignal(q)
    \/ \E u \in Users, c \in LookupInputs :
          JoinHandler(u, c.quizId, c.seen, c.storeOk)
    \/ \E u \in Users, q \in QuizInputs : LockHandler(u, q)
    \/ \E u \in Users, c \in AnswerInputs :
          AnswerHandler(u, c.quizId, c.payload.shape, c.payload.questionIndex,
                        c.payload.selectedIndex)
    \/ \E q \in DOMAIN db : Tick(q)
    \/ \E q \in DOMAIN db : \E k \in 1 .. Len(timers[q]) : DeadlineFires(q, k)
    \/ \E q \in DOMAIN db : \E k \in 1 .. Len(timers[q]) : AdvanceFires(q, k)
    \/ \E q \in DOMAIN db, ok \in BOOLEAN : EndQuizFound(q, ok)
    \/ \E q \in DOMAIN db, ok \in BOOLEAN : EndQuizSave(q, ok)
    \/ \E q \in DOMAIN db : EndQuizFinish(q)

Spec == Init /\ [][Next]_vars

\* the scheduling the event loop and the store give: a due timer callback is
\* run, the clock moves on, and a pending store call returns (with either
\* outcome)
Fairness ==
    /\ \A q \in QuizIds : WF_vars(Tick(q))
    /\ \A q \in QuizIds : WF_vars(\E k \in 1 .. Len(timers[q]) : DeadlineFires(q, k))
    /\ \A q \in QuizIds : WF_vars(\E k \in 1 .. Len(timers[q]) : AdvanceFires(q, k))
    /\ \A q \in QuizIds : WF_vars(\E ok \in BOOLEAN : EndQuizFound(q, ok))
    /\ \A q \in QuizIds : WF_vars(\E ok \in BOOLEAN : EndQuizSave(q, ok))
    /\ \A q \in QuizIds : WF_vars(EndQuizFinish(q))

FairSpec == Init /\ [][Next]_vars /\ Fairness

-----------------------------------------------------------------------------
(* A start request overtaken by the whole quiz *)

\* how many startQuiz requests per quiz may apply quiz.save() after the quiz
\* has ended, in the runs of LateSpec
MaxStaleStarts == 1

\* startQuiz that read the document while its status was CREATED and whose
\* quiz.save() the store applies when another request's quiz has run and
\* ended: the status is written from the stale document
StaleStartQuizSave(u, q) ==
    /\ q \in DOMAIN db
    /\ db[q].status = "ENDED"
    /\ startQuizReply(u, q, "CREATED", TRUE).event = "200"
    /\ startReqs[q].late < MaxStaleStarts
    /\ startReqs[q].saved < MaxPendingStarts
    /\ db' = [db EXCEPT ![q].status = "RUNNING",
                        ![q].statusLog = @ \cup {"RUNNING"}]
    /\ startReqs' = [startReqs EXCEPT ![q].late = @ + 1, ![q].saved = @ + 1]
    /\ UNCHANGED <<members, roleOf, quizHandler, activeSessions, timers,
                   announced, ended>>

\* the runs in which nobody answers and a start request may be that late
NextLate ==
    \/ \E u \in Users, c \in LookupInputs :
          StartQuizSave(u, c.quizId, c.seen, c.storeOk)
    \/ \E u \in Users, q \in DOMAIN db : StaleStartQuizSave(u, q)
    \/ \E q \in DOMAIN db : StartQuizSignal(q)
    \/ \E u \in Users, c \in LookupInputs :
          JoinHandler(u, c.quizId, c.seen, c.storeOk)
    \/ \E u \in Users, q \in QuizInputs : LockHandler(u, q)
    \/ \E q \in DOMAIN db : Tick(q)
    \/ \E q \in DOMAIN db : \E k \in 1 .. Len(timers[q]) : DeadlineFires(q, k)
    \/ \E q \in DOMAIN db : \E k \in 1 .. Len(timers[q]) : AdvanceFires(q, k)
    \/ \E q \in DOMAIN db, ok \in BOOLEAN : EndQuizFound(q, ok)
    \/ \E q \in DOMAIN db, ok \in BOOLEAN : EndQuizSave(q, ok)
    \/ \E q \in DOMAIN db : EndQuizFinish(q)

LateSpec == Init /\ [][NextLate]_vars

-----------------------------------------------------------------------------
(* Two quizzes side by side *)

TwoQuizIds == {"quizA", "quizB"}

\* the users that act in the runs of TwoSpec
TwoSpecUsers == {Creator}

\* two quizzes of the same creator are stored
InitTwo ==
    /\ db = [q \in TwoQuizIds |-> NewQuiz(q)]
    /\ members = {Creator}
    /\ roleOf = [u \in Users |-> IF u = Staff THEN "FACULTY" ELSE "STUDENT"]
    /\ quizHandler \in BOOLEAN
    /\ activeSessions = <<>>
    /\ timers = [q \in TwoQuizIds |-> <<>>]
    /\ startReqs = [q \in TwoQuizIds |-> [late |-> 0, saved |-> 0]]
    /\ announced = [q \in TwoQuizIds |-> 0]
    /\ ended = [q \in TwoQuizIds |-> <<>>]

\* the steps of the system when only TwoSpecUsers send requests
NextTwo ==
    \/ \E u \in TwoSpecUsers, c \in LookupInputs :
          StartQuizSave(u, c.quizId, c.seen, c.storeOk)
    \/ \E q \in DOMAIN db : StartQuizSignal(q)
    \/ \E u \in TwoSpecUsers, c \in LookupInputs :
          JoinHandler(u, c.quizId, c.seen, c.storeOk)
    \/ \E u \in TwoSpecUsers, q \in QuizInputs : LockHandler(u, q)
    \/ \E u \in TwoSpecUsers, c \in AnswerInputs :
          AnswerHandler(u, c.quizId, c.payload.shape, c.payload.questionIndex,
                        c.payload.selectedIndex)
    \/ \E q \in DOMAIN db : Tick(q)
    \/ \E q \in DOMAIN db : \E k \in 1 .. Len(timers[q]) : DeadlineFires(q, k)
    \/ \E q \in DOMAIN db : \E k \in 1 .. Len(timers[q]) : AdvanceFires(q, k)
    \/ \E q \in DOMAIN db, ok \in BOOLEAN : EndQuizFound(q, ok)
    \/ \E q \in DOMAIN db, ok \in BOOLEAN : EndQuizSave(q, ok)
    \/ \E q \in DOMAIN db : EndQuizFinish(q)

TwoSpec == InitTwo /\ [][NextTwo]_vars

-----------------------------------------------------------------------------
(* A quiz whose first question has three options and ten seconds *)

ScenarioQuestions ==
    <<[options |-> 3, correctIndex |-> 1, timeLimit |-> 10],
      [options |-> 2, correctIndex |-> 0, timeLimit |-> MinTimeLimit]>>

\* the clock of ScenarioSpec advances by seconds
ScenarioTickMs == 1000

\* the two participants
ScenarioA == "u2"
ScenarioB == "u3"

\* the quiz is stored; all three users are students of the quiz's group
ScenarioInit ==
    /\ db = [q \in QuizIds |-> [NewQuiz(q) EXCEPT !.questions = ScenarioQuestions]]
    /\ members = Users
    /\ roleOf = [u \in Users |-> "STUDENT"]
    /\ quizHandler = TRUE
    /\ activeSessions = <<>>
    /\ timers = [q \in QuizIds |-> <<>>]
    /\ startReqs = [q \in QuizIds |-> [late |-> 0, saved |-> 0]]
    /\ announced = [q \in QuizIds |-> 0]
    /\ ended = [q \in QuizIds |-> <<>>]

\* the steps of the system when the creator starts and locks and the two
\* participants join and send answers for the first question
ScenarioNext ==
    \/ \E c \in LookupInputs : StartQuizSave(Creator, c.quizId, c.seen, c.storeOk)
    \/ \E q \in DOMAIN db : StartQuizSignal(q)
    \/ \E u \in {ScenarioA, ScenarioB}, c \in LookupInputs :
          JoinHandler(u, c.quizId, c.seen, c.storeOk)
    \/ \E q \in QuizInputs : LockHandler(Creator, q)
    \/ \E u \in {ScenarioA, ScenarioB}, q \in DOMAIN db, o \in SelectedIndexInputs :
          AnswerHandler(u, q, "integers", 0, o)
    \/ \E q \in DOMAIN db : TickBy(q, ScenarioTickMs)
    \/ \E q \in DOMAIN db : \E k \in 1 .. Len(timers[q]) : DeadlineFires(q, k)
    \/ \E q \in DOMAIN db : \E k \in 1 .. Len(timers[q]) : AdvanceFires(q, k)
    \/ \E q \in DOMAIN db, ok \in BOOLEAN : EndQuizFound(q, ok)
    \/ \E q \in DOMAIN db, ok \in BOOLEAN : EndQuizSave(q, ok)
    \/ \E q \in DOMAIN db : EndQuizFinish(q)

ScenarioSpec == ScenarioInit /\ [][ScenarioNext]_vars

-----------------------------------------------------------------------------
(* REST: GET /api/quiz/:quizId/results *)

\* the comparator of getQuizResults, were it to put the later of two equal
\* participants first
ResultsRankedBeforeTiesReversed(a, b) ==
    IF b.score # a.score
    THEN b.score - a.score < 0
    ELSE a.totalResponseTimeMs - b.totalResponseTimeMs <= 0

\* the comparator of getQuizResults: a negative result
ResultsRankedBefore(a, b) ==
    IF b.score # a.score
    THEN b.score - a.score < 0
    ELSE a.totalResponseTimeMs - b.totalResponseTimeMs < 0

\* stable insertion of p into the sorted sequence s
RECURSIVE ResultsInsert(_, _)
ResultsInsert(s, p) ==
    IF s = <<>> THEN <<p>>
    ELSE IF ResultsRankedBefore(p, Head(s))
         THEN <<p>> \o s
         ELSE <<Head(s)>> \o ResultsInsert(Tail(s), p)

\* [...quiz.participants].sort(comparator) (a stable sort)
RECURSIVE ResultsSort(_)
ResultsSort(s) ==
    IF s = <<>> THEN <<>>
    ELSE ResultsInsert(ResultsSort(SubSeq(s, 1, Len(s) - 1)), s[Len(s)])

\* the leaderboard getQuizResults builds from the stored participants
ResultsLeaderboard(doc) ==
    LET sorted == ResultsSort(doc.participants)
    IN [idx \in 1 .. Len(sorted) |->
            [rank |-> idx,
             userId |-> sorted[idx].userId,
             score |-> sorted[idx].score,
             totalResponseTimeMs |-> sorted[idx].totalResponseTimeMs,
             answers |-> sorted[idx].answers]]

\* the response of getQuizResults to user u for quiz q
getQuizResultsReply(u, q, storeOk) ==
    IF ~storeOk THEN Http("500", "store error")
    ELSE IF q \notin DOMAIN db THEN Http("404", "Quiz not found.")
    ELSE IF ~isMember(u) THEN Http("403", "You are not a member of this group.")
    ELSE IF db[q].status # "ENDED"
    THEN Http("400", "Results are only available after the quiz has ended.")
    ELSE [event |-> "200", leaderboard |-> ResultsLeaderboard(db[q])]

-----------------------------------------------------------------------------
(* The handler with a fixed join window (src/unnamed/part_021) *)

JOIN_WINDOW_MS == 10000

\* the runs of FixedWindowSpec stop at this many emissions and at this many
\* results of one question, and at this many endQuiz runs
MaxEmissionsFW == 2
MaxEndRunsFW == 1

\* the selectedIndex values a client sends in the runs of FixedWindowSpec
SelectedIndexInputsFW == {1}

\* the users that send socket events in the runs of FixedWindowSpec
UsersFW == {Creator, Staff}

\* constructor(quiz).  A timer callback holds its session after endQuiz has
\* deleted it from activeSessions: registered says whether the registry
\* still has it.  endRuns holds the endQuiz runs of the session, each with
\* its position, its leaderboard and the participants it stores
NewSessionFW(quiz) ==
    [quiz |-> quiz,
     participants |-> <<>>,
     currentQuestionIndex |-> -1,
     elapsedMs |-> 0,
     questionTimer |-> NoTimer,
     started |-> FALSE,
     questionStats |-> <<>>,
     registered |-> TRUE,
     sent |-> [question |-> ZeroCounts(QuestionCount(quiz)),
               result |-> ZeroCounts(QuestionCount(quiz))],
     endRuns |-> <<>>]

\* activeSessions.get(quizId) yields a session
HasSessionFW(q) == HasSession(q) /\ activeSessions[q].registered

\* addParticipant(userId)
addParticipantFW(session, u) == addParticipant(session, u)

\* recordAnswer returns false
recordAnswerRejectedFW(session, u, questionIndex) ==
    \/ ~HasParticipant(session, u)
    \/ questionIndex \in DOMAIN GetParticipant(session, u).answers
    \/ ~HasQuestion(session.quiz, questionIndex)

\* recordAnswer(userId, questionIndex, selectedIndex, responseTimeMs)
recordAnswerFW(session, u, questionIndex, selectedIndex, responseTimeMs) ==
    IF recordAnswerRejectedFW(session, u, questionIndex)
    THEN session
    ELSE LET isCorrect ==
                 selectedIndex = Question(session.quiz, questionIndex).correctIndex
             k == PIndex(session, u)
             answered ==
                 [session.participants[k] EXCEPT !.answers = (questionIndex :>
                     [selectedIndex |-> selectedIndex, isCorrect |-> isCorrect,
                      responseTimeMs |-> responseTimeMs]) @@ @]
         IN [session EXCEPT !.participants[k] =
                IF isCorrect
                THEN [answered EXCEPT !.score = @ + 1,
                                      !.totalResponseTimeMs = @ + responseTimeMs]
                ELSE answered]

\* isQuestionAnsweredByAll(questionIndex)
isQuestionAnsweredByAllFW(session, questionIndex) ==
    /\ \A k \in 1 .. Len(session.participants) :
           questionIndex \in DOMAIN session.participants[k].answers
    /\ Len(session.participants) > 0

\* endQuiz(io, session) up to its first await, as one more run of the session
endQuizBeginFW(session) ==
    [session EXCEPT !.endRuns =
        Append(@, [pc |-> "find", ranked |-> Ranked(session), participants |-> <<>>,
                   stats |-> <<>>])]

\* emitQuestion(io, session, questionIndex): the session afterwards
emitQuestionFW(session, questionIndex) ==
    IF questionIndex >= QuestionCount(session.quiz)
    THEN endQuizBeginFW(session)
    ELSE LET emitted ==
                 [session EXCEPT
                     !.currentQuestionIndex = questionIndex,
                     !.elapsedMs = 0,
                     !.sent.question[questionIndex] = @ + 1]
         IN [emitted EXCEPT !.questionTimer = TimerHandle(emitted)]

\* emitQuestion(io, session, questionIndex): the pending timers afterwards
emitQuestionTimersFW(session, ts, questionIndex) ==
    IF questionIndex >= QuestionCount(session.quiz)
    THEN ts
    ELSE Append(ts, [kind |-> "deadline",
                     index |-> questionIndex,
                     handle |-> emitQuestionFW(session, questionIndex).questionTimer,
                     delay |-> Question(session.quiz, questionIndex).timeLimit * 1000])

\* closeQuestion(io, session): the session afterwards
closeQuestionFW(session) ==
    LET questionIndex == session.currentQuestionIndex
    IN [session EXCEPT
           !.questionStats =
               (questionIndex :> QuestionTally(session, questionIndex)) @@ @,
           !.sent.result[questionIndex] = @ + 1]

\* closeQuestion(io, session): the pending timers afterwards
closeQuestionTimersFW(session, ts) ==
    Append(ts, [kind |-> "advance",
                index |-> session.currentQuestionIndex + 1,
                handle |-> NoTimer,
                delay |-> BETWEEN_QUESTIONS_MS])

\* startQuiz after quiz.save() has resolved: startQuizSession(quiz) registers
\* the session, announces it and starts the join window
StartQuizSignalFW(q) ==
    /\ startReqs[q].saved > 0
    /\ db[q].status # "ENDED"
    /\ HasSession(q) => activeSessions[q].registered
    /\ startReqs' = [startReqs EXCEPT ![q].saved = @ - 1]
    /\ IF HasSessionFW(q)
       THEN UNCHANGED <<activeSessions, announced, timers>>
       ELSE /\ activeSessions' = activeSessions @@ (q :> NewSessionFW(QuizDoc(q)))
            /\ announced' = [announced EXCEPT ![q] = @ + 1]
            /\ timers' = [timers EXCEPT ![q] =
                  Append(@, [kind |-> "join", index |-> 0, handle |-> NoTimer,
                             delay |-> JOIN_WINDOW_MS])]
    /\ UNCHANGED <<db, members, roleOf, quizHandler, ended>>

\* the private event of quiz:join
joinReplyFW(u, q, seen, storeOk) ==
    IF q = NoQuizId THEN Error("quizId is required.")
    ELSE IF ~storeOk THEN Error("store error")
    ELSE IF q \notin DOMAIN db THEN Error("Quiz not found.")
    ELSE IF seen = "ENDED" THEN Error("Quiz has already ended.")
    ELSE IF seen = "CREATED" THEN Error("Quiz has not started yet.")
    ELSE IF ~isMember(u) THEN Error("You are not a member of this group.")
    ELSE IF HasSessionFW(q)
    THEN Joined(Len(addParticipantFW(activeSessions[q], u).participants))
    ELSE Joined(0)

\* the quiz:join handler
JoinHandlerFW(u, q, seen, storeOk) ==
    /\ Readable(q, seen)
    /\ IF joinReplyFW(u, q, seen, storeOk).event = "quiz:joined" /\ HasSessionFW(q)
       THEN activeSessions' = [activeSessions EXCEPT ![q] = addParticipantFW(@, u)]
       ELSE UNCHANGED activeSessions
    /\ UNCHANGED <<db, members, roleOf, quizHandler, timers, startReqs,
                   announced, ended>>

\* the private event of quiz:answer
answerReplyFW(u, q, shape, questionIndex, selectedIndex) ==
    IF q = NoQuizId \/ shape = "missing"
    THEN Error("quizId, questionIndex, and selectedIndex are required.")
    ELSE IF ~HasSessionFW(q) THEN Error("No active quiz session found.")
    ELSE IF activeSessions[q].currentQuestionIndex # questionIndex
    THEN Error("Wrong question index - this question is not active.")
    ELSE IF ~HasParticipant(activeSessions[q], u)
    THEN Error("You have not joined this quiz.")
    ELSE IF recordAnswerRejectedFW(activeSessions[q], u, questionIndex)
    THEN Error("You have already answered this question.")
    ELSE AnswerAck

\* the quiz:answer handler
AnswerHandlerFW(u, q, shape, questionIndex, selectedIndex) ==
    /\ IF answerReplyFW(u, q, shape, questionIndex, selectedIndex) = AnswerAck
       THEN LET session == activeSessions[q]
                recorded == recordAnswerFW(session, u, questionIndex, selectedIndex,
                                           session.elapsedMs)
                stopped == [recorded EXCEPT !.questionTimer = NoTimer]
            IN IF isQuestionAnsweredByAllFW(recorded, questionIndex)
               THEN /\ session.sent.result[questionIndex] < MaxEmissionsFW
                    /\ activeSessions' =
                          [activeSessions EXCEPT ![q] = closeQuestionFW(stopped)]
                    /\ timers' = [timers EXCEPT ![q] =
                          closeQuestionTimersFW(stopped,
                              clearTimeout(@, recorded.questionTimer))]
               ELSE /\ activeSessions' = [activeSessions EXCEPT ![q] = recorded]
                    /\ UNCHANGED timers
       ELSE UNCHANGED <<activeSessions, timers>>
    /\ UNCHANGED <<db, members, roleOf, quizHandler, startReqs, announced, ended>>

\* Date.now() advances by one tick for the timers and the emitted question of
\* q; a timer that is due runs first
TickFW(q) ==
    /\ \E k \in 1 .. Len(timers[q]) : timers[q][k].delay > 0
    /\ \A k \in 1 .. Len(timers[q]) : timers[q][k].delay # 0
    /\ timers' = [timers EXCEPT ![q] =
          [k \in 1 .. Len(@) |->
              [@[k] EXCEPT !.delay = IF @ > TickMs THEN @ - TickMs ELSE 0]]]
    /\ IF HasSession(q) /\ activeSessions[q].currentQuestionIndex >= 0
       THEN activeSessions' = [activeSessions EXCEPT ![q].elapsedMs = @ + TickMs]
       ELSE UNCHANGED activeSessions
    /\ UNCHANGED <<db, members, roleOf, quizHandler, startReqs, announced, ended>>

\* the deadline timer of an emitted question expires: questionTimer is
\* cleared and closeQuestion runs
DeadlineFiresFW(q, k) ==
    /\ k \in 1 .. Len(timers[q])
    /\ timers[q][k].kind = "deadline"
    /\ timers[q][k].delay = 0
    /\ HasSession(q)
    /\ LET session == [activeSessions[q] EXCEPT !.questionTimer = NoTimer]
       IN /\ session.sent.result[session.currentQuestionIndex] < MaxEmissionsFW
          /\ activeSessions' = [activeSessions EXCEPT ![q] = closeQuestionFW(session)]
          /\ timers' = [timers EXCEPT ![q] =
                closeQuestionTimersFW(session, RemoveAt(@, k))]
    /\ UNCHANGED <<db, members, roleOf, quizHandler, startReqs, announced, ended>>

\* the join window or the pause after a result is over: emitQuestion(index)
EmitFiresFW(q, k) ==
    /\ k \in 1 .. Len(timers[q])
    /\ timers[q][k].kind \in {"join", "advance"}
    /\ timers[q][k].delay = 0
    /\ HasSession(q)
    /\ LET session == activeSessions[q]
           index == timers[q][k].index
       IN /\ HasQuestion(session.quiz, index) =>
                 session.sent.question[index] < MaxEmissionsFW
          /\ ~HasQuestion(session.quiz, index) =>
                 Len(session.endRuns) < MaxEndRunsFW
          /\ activeSessions' = [activeSessions EXCEPT ![q] = emitQuestionFW(session, index)]
          /\ timers' = [timers EXCEPT ![q] =
                emitQuestionTimersFW(session, RemoveAt(@, k), index)]
    /\ UNCHANGED <<db, members, roleOf, quizHandler, startReqs, announced, ended>>

\* Quiz.findById of endQuiz run r returns: the document is filled from the
\* session and quiz.save() is called; or findById throws and the catch logs
EndQuizFoundFW(q, r, ok) ==
    /\ HasSession(q)
    /\ r \in 1 .. Len(activeSessions[q].endRuns)
    /\ activeSessions[q].endRuns[r].pc = "find"
    /\ LET session == activeSessions[q]
       IN activeSessions' = [activeSessions EXCEPT ![q].endRuns[r] =
             IF ok
             THEN [@ EXCEPT !.pc = "save",
                            !.stats = session.questionStats,
                            !.participants = SnapshotParticipants(session)]
             ELSE [@ EXCEPT !.pc = "failed"]]
    /\ UNCHANGED <<db, members, roleOf, quizHandler, timers, startReqs,
                   announced, ended>>

\* the store applies the save of endQuiz run r; or the save throws
EndQuizSaveFW(q, r, ok) ==
    /\ HasSession(q)
    /\ r \in 1 .. Len(activeSessions[q].endRuns)
    /\ activeSessions[q].endRuns[r].pc = "save"
    /\ IF ok
       THEN /\ db' = [db EXCEPT ![q].status = "ENDED",
                                ![q].statusLog = @ \cup {"ENDED"},
                                ![q].stats = activeSessions[q].endRuns[r].stats,
                                ![q].participants =
                                    activeSessions[q].endRuns[r].participants]
            /\ activeSessions' = [activeSessions EXCEPT ![q].endRuns[r].pc = "saved"]
       ELSE /\ activeSessions' = [activeSessions EXCEPT ![q].endRuns[r].pc = "failed"]
            /\ UNCHANGED db
    /\ UNCHANGED <<members, roleOf, quizHandler, timers, startReqs, announced, ended>>

\* endQuiz run r after quiz.save() has resolved: quiz:ended is broadcast and
\* activeSessions.delete(quizId) runs
EndQuizFinishFW(q, r) ==
    /\ HasSession(q)
    /\ r \in 1 .. Len(activeSessions[q].endRuns)
    /\ activeSessions[q].endRuns[r].pc = "saved"
    /\ ended' = [ended EXCEPT ![q] = Append(@, activeSessions[q].endRuns[r].ranked)]
    /\ activeSessions' = [activeSessions EXCEPT ![q].endRuns[r].pc = "done",
                                                ![q].registered = FALSE]
    /\ UNCHANGED <<db, members, roleOf, quizHandler, timers, startReqs, announced>>

\* the server runs the fixed-window handler and has it wired to the start
\* action
InitFW ==
    /\ db = [q \in QuizIds |-> NewQuiz(q)]
    /\ members = {Creator}
    /\ roleOf = [u \in Users |-> IF u = Staff THEN "FACULTY" ELSE "STUDENT"]
    /\ quizHandler = TRUE
    /\ activeSessions = <<>>
    /\ timers = [q \in QuizIds |-> <<>>]
    /\ startReqs = [q \in QuizIds |-> [late |-> 0, saved |-> 0]]
    /\ announced = [q \in QuizIds |-> 0]
    /\ ended = [q \in QuizIds |-> <<>>]

NextFW ==
    \/ \E c \in LookupInputs : StartQuizSave(Creator, c.quizId, c.seen, c.storeOk)
    \/ \E q \in DOMAIN db : StartQuizSignalFW(q)
    \/ \E u \in UsersFW, c \in LookupInputs :
          JoinHandlerFW(u, c.quizId, c.seen, c.storeOk)
    \/ \E u \in UsersFW, q \in DOMAIN db :
          \E i \in 0 .. QuestionCount(db[q]), o \in SelectedIndexInputsFW :
              AnswerHandlerFW(u, q, "integers", i, o)
    \/ \E q \in DOMAIN db : TickFW(q)
    \/ \E q \in DOMAIN db : \E k \in 1 .. Len(timers[q]) : DeadlineFiresFW(q, k)
    \/ \E q \in DOMAIN db : \E k \in 1 .. Len(timers[q]) : EmitFiresFW(q, k)
    \/ \E q \in DOMAIN db, ok \in BOOLEAN :
          \E r \in 1 .. MaxEndRunsFW : EndQuizFoundFW(q, r, ok)
    \/ \E q \in DOMAIN db, ok \in BOOLEAN :
          \E r \in 1 .. MaxEndRunsFW : EndQuizSaveFW(q, r, ok)
    \/ \E q \in DOMAIN db : \E r \in 1 .. MaxEndRunsFW : EndQuizFinishFW(q, r)

FixedWindowSpec == InitFW /\ [][NextFW]_vars

-----------------------------------------------------------------------------
(* Properties *)

Sessions == DOMAIN activeSessions

\* the users admitted to the session of q
Admitted(q) ==
    {activeSessions[q].participants[k].userId :
        k \in 1 .. Len(activeSessions[q].participants)}

\* user u holds an AnswerRecord for question i in the session of q
HasAnswer(q, u, i) ==
    \E k \in 1 .. Len(activeSessions[q].participants) :
        /\ activeSessions[q].participants[k].userId = u
        /\ i \in DOMAIN activeSessions[q].participants[k].answers

\* the number of AnswerRecords the session of q holds
RECURSIVE RecordsUpTo(_, _)
RecordsUpTo(ps, n) ==
    IF n = 0 THEN 0
    ELSE Cardinality(DOMAIN ps[n].answers) + RecordsUpTo(ps, n - 1)

RecordCount(q) ==
    RecordsUpTo(activeSessions[q].participants, Len(activeSessions[q].participants))

\* the number of correct records of participant p and the sum of their times
RECURSIVE CorrectUpTo(_, _)
CorrectUpTo(p, i) ==
    IF i < 0 THEN 0
    ELSE (IF i \in DOMAIN p.answers /\ p.answers[i].isCorrect THEN 1 ELSE 0)
         + CorrectUpTo(p, i - 1)

RECURSIVE CorrectTimeUpTo(_, _)
CorrectTimeUpTo(p, i) ==
    IF i < 0 THEN 0
    ELSE (IF i \in DOMAIN p.answers /\ p.answers[i].isCorrect
          THEN p.answers[i].responseTimeMs ELSE 0)
         + CorrectTimeUpTo(p, i - 1)

\* every quiz:answer command of user u for question i of quiz q is refused
AllAnswersRefused(q, u, i) ==
    \A c \in AnswerPayloads :
        c.questionIndex = i =>
            answerReply(u, q, c.shape, c.questionIndex, c.selectedIndex).event
                = "quiz:error"

\* question i of the session of q has been closed
IsClosed(q, i) ==
    \/ i < activeSessions[q].currentQuestionIndex
    \/ i = activeSessions[q].currentQuestionIndex /\ activeSessions[q].questionClosed

\* the deadline timers pending for q
DeadlineTimers(q) == {k \in 1 .. Len(timers[q]) : timers[q][k].kind = "deadline"}

\* C1: a participant holds at most one AnswerRecord per question, and the
\* first accepted answer is final: every further quiz:answer of that user
\* for that question is refused, whatever the payload; every accepted answer
\* made a new record (none replaced one), and score and totalResponseTimeMs
\* are those of the records held.
C1_FirstAnswerFinal ==
    \A q \in Sessions :
        LET session == activeSessions[q]
            last == QuestionCount(session.quiz) - 1
        IN /\ \A u \in Users, i \in 0 .. last :
                  HasAnswer(q, u, i) => AllAnswersRefused(q, u, i)
           /\ session.sent.scoreUpdate = RecordCount(q)
           /\ \A k \in 1 .. Len(session.participants) :
                  /\ session.participants[k].score =
                         CorrectUpTo(session.participants[k], last)
                  /\ session.participants[k].totalResponseTimeMs =
                         CorrectTimeUpTo(session.participants[k], last)

\* C1 witness: a participant has answered the open question while another
\* has not, so that only the duplicate guard refuses the participant's
\* second answer
C1_Witness ==
    \E q \in Sessions, u \in Users :
        /\ ~activeSessions[q].questionClosed
        /\ HasAnswer(q, u, activeSessions[q].currentQuestionIndex)
        /\ answerReply(u, q, "integers", activeSessions[q].currentQuestionIndex, 0)
               = Error("You have already answered this question.")

\* C2: once a question is closed no quiz:answer for it is accepted, from
\* anyone, during the pause and during finalization alike, so that the
\* stored tally of a closed question stays the tally of the records held;
\* while the question is open, an admitted user's first valid answer is
\* accepted whatever the clock shows.
C2_CloseIsFinal ==
    \A q \in Sessions :
        LET session == activeSessions[q]
            current == session.currentQuestionIndex
        IN /\ \A i \in 0 .. QuestionCount(session.quiz) - 1 :
                  IsClosed(q, i) =>
                      /\ \A u \in Users : AllAnswersRefused(q, u, i)
                      /\ i \in DOMAIN session.questionStats
                      /\ session.questionStats[i] = QuestionTally(session, i)
           /\ session.started /\ ~session.questionClosed =>
                  \A u \in Admitted(q) :
                      ~HasAnswer(q, u, current) =>
                          answerReply(u, q, "integers", current, 0) = AnswerAck

\* C2 witness: a question is closed while an admitted user has no answer for
\* it and is told that time is up, and another answer was accepted when the
\* deadline had already passed on the clock
C2_Witness ==
    \E q \in Sessions, u \in Users, v \in Users :
        LET session == activeSessions[q]
            current == session.currentQuestionIndex
        IN /\ session.started
           /\ session.questionClosed
           /\ u \in Admitted(q)
           /\ ~HasAnswer(q, u, current)
           /\ answerReply(u, q, "integers", current, 0)
                  = Error("Time is up for this question.")
           /\ HasAnswer(q, v, current)
           /\ GetParticipant(session, v).answers[current].responseTimeMs
                  >= Question(session.quiz, current).timeLimit * 1000

\* C3: a question is closed exactly once: a closed question has had one
\* quiz:question-result, one write of its stats and one advance scheduled,
\* an open or future question none; and closeQuestion on a closed question
\* changes neither the session nor the timers.
C3_CloseOnce ==
    \A q \in Sessions :
        LET session == activeSessions[q]
        IN /\ \A i \in 0 .. QuestionCount(session.quiz) - 1 :
                  LET n == IF IsClosed(q, i) THEN 1 ELSE 0
                  IN /\ session.sent.result[i] = n
                     /\ session.statsWrites[i] = n
                     /\ session.advances[i] = n
           /\ session.questionClosed =>
                  /\ closeQuestion(session) = session
                  /\ closeQuestionTimers(session, timers[q]) = timers[q]
                  /\ deadlineCallback(session).sent = session.sent

\* C3 witness: the second question was closed by the last answer at the very
\* moment its deadline timer was due, after the first was closed by its timer
C3_Witness ==
    \E q \in Sessions :
        LET session == activeSessions[q]
        IN /\ session.currentQuestionIndex = 1
           /\ session.questionClosed
           /\ Len(session.participants) = 2
           /\ \E u \in Admitted(q) : ~HasAnswer(q, u, 0)
           /\ \A u \in Admitted(q) : HasAnswer(q, u, 1)
           /\ session.elapsedMs >= Question(session.quiz, 1).timeLimit * 1000
           /\ session.sent.result[1] = 1

\* C4: as soon as every admitted participant (at least one) holds an answer
\* for the current question, the question is closed: the step that recorded
\* the last answer has cancelled the deadline timer and broadcast the
\* result, and no further answer for that question is accepted.
C4_EarlyClose ==
    \A q \in Sessions :
        LET session == activeSessions[q]
            current == session.currentQuestionIndex
        IN (/\ session.started
            /\ Len(session.participants) >= 1
            /\ \A u \in Admitted(q) : HasAnswer(q, u, current))
           => /\ session.questionClosed
              /\ session.sent.result[current] = 1
              /\ session.questionTimer = NoTimer
              /\ DeadlineTimers(q) = {}
              /\ \A u \in Users : AllAnswersRefused(q, u, current)

\* C4 witness: two participants have both answered the first question before
\* its deadline and the question is closed with its timer gone
C4_Witness ==
    \E q \in Sessions :
        LET session == activeSessions[q]
        IN /\ session.currentQuestionIndex = 0
           /\ Len(session.participants) = 2
           /\ \A u \in Admitted(q) : HasAnswer(q, u, 0)
           /\ session.elapsedMs < Question(session.quiz, 0).timeLimit * 1000
           /\ session.questionClosed
           /\ DeadlineTimers(q) = {}

\* C5: a session is locked at most once: it is locked exactly when one
\* quiz:locked has been broadcast and question 0 has been emitted once, and
\* from then on every quiz:lock, whoever sends it, is refused as already
\* running; an unlocked session has emitted no question.
C5_LockOnce ==
    \A q \in Sessions :
        LET session == activeSessions[q]
        IN /\ session.sent.locked = (IF session.locked THEN 1 ELSE 0)
           /\ session.sent.question[0] = (IF session.locked THEN 1 ELSE 0)
           /\ session.locked =>
                  \A u \in Users :
                      lockReply(u, q) = Error("Quiz is already locked and running.")
           /\ ~session.locked => ~session.started /\ timers[q] = <<>>

\* C5 witness: a locked session with its first question out, where the
\* creator's next quiz:lock is refused
C5_Witness ==
    \E q \in Sessions :
        /\ activeSessions[q].locked
        /\ activeSessions[q].sent.question[0] = 1
        /\ activeSessions[q].creatorId = Creator
        /\ lockReply(Creator, q) = Error("Quiz is already locked and running.")

\* the joins of user u that the quiz lookup and the membership check let
\* through: the document read says RUNNING, the store answered, u is a member
\* or of an elevated role
PassesJoinChecks(u, c) ==
    c.storeOk /\ c.seen = "RUNNING" /\ isMember(u)

\* C6 as stated: every quiz:join processed while the session is locked is
\* refused with the lobby-closed reason, whoever sends it.
C6_LockedJoinLobbyClosed ==
    \A q \in Sessions :
        activeSessions[q].locked =>
            \A u \in Users, c \in LookupInputs :
                c.quizId = q /\ Readable(q, c.seen) =>
                    joinReply(u, q, c.seen, c.storeOk)
                        = Error("Lobby is locked. The quiz has already begun.")

\* C6 amended: every quiz:join processed while the session is locked is
\* refused and admits nobody (the participants stay those of the roster
\* broadcast at lock), for every role and for the creator; the reason is
\* the lobby-closed one whenever the quiz lookup and the membership check
\* let the join through.
C6_LockedJoinRefused ==
    \A q \in Sessions :
        activeSessions[q].locked =>
            /\ ParticipantIds(activeSessions[q]) = activeSessions[q].sent.roster
            /\ \A u \in Users, c \in LookupInputs :
                   c.quizId = q /\ Readable(q, c.seen) =>
                       /\ joinReply(u, q, c.seen, c.storeOk).event = "quiz:error"
                       /\ PassesJoinChecks(u, c) =>
                              joinReply(u, q, c.seen, c.storeOk)
                                  = Error("Lobby is locked. The quiz has already begun.")

\* C6 witness: a locked session that the moderator never joined, where the
\* moderator's and the creator's quiz:join are refused as lobby closed
C6_Witness ==
    \E q \in Sessions :
        /\ activeSessions[q].locked
        /\ Staff \notin Admitted(q)
        /\ roleOf[Staff] = "ADMIN"
        /\ joinReply(Staff, q, "RUNNING", TRUE)
               = Error("Lobby is locked. The quiz has already begun.")
        /\ joinReply(Creator, q, "RUNNING", TRUE)
               = Error("Lobby is locked. The quiz has already begun.")

\* C7 as stated: when the durable write of endQuiz has failed, quiz:ended has
\* still been broadcast to the quiz room.
C7_EndedDespiteStoreFailure ==
    \A q \in Sessions :
        activeSessions[q].endPc = "failed" => Len(ended[q]) >= 1

\* C8 as stated: once a session is locked the quiz eventually ends:
\* quiz:ended is broadcast and the session has left the registry.
C8_LockedQuizEnds ==
    \A q \in QuizIds :
        (HasSession(q) /\ activeSessions[q].locked)
            ~> (Len(ended[q]) >= 1 /\ ~HasSession(q))

\* the endQuiz run of the session of q is over
EndQuizOver(q) ==
    \/ ~HasSession(q) /\ Len(ended[q]) >= 1
    \/ HasSession(q) /\ activeSessions[q].endPc = "failed"

\* C9 as stated: after endQuiz has run, the registry holds no session for the
\* quiz, every quiz:answer is refused as having no active session, and every
\* quiz:join that looks the quiz up is refused as not found or already ended.
C9_GoneAfterEnd ==
    \A q \in QuizIds :
        EndQuizOver(q) =>
            /\ ~HasSession(q)
            /\ \A u \in Users, c \in AnswerPayloads :
                   answerReply(u, q, c.shape, c.questionIndex, c.selectedIndex)
                       \in {Error("No active quiz session found."),
                            Error("quizId, questionIndex, and selectedIndex are required.")}
            /\ \A u \in Users :
                   joinReply(u, q, db[q].status, TRUE)
                       \in {Error("Quiz not found."), Error("Quiz has already ended.")}

\* C10: the registry holds one session per announced quiz run: a start signal
\* for a quiz id that has a session leaves the registry as it is and
\* announces nothing; a start signal for a quiz id without one registers a
\* fresh session and announces once; so the announcements of a quiz number
\* its finished runs plus the session it has now.
C10_StartIdempotent ==
    \A q \in QuizIds :
        /\ HasSession(q) =>
               /\ startQuizSession(activeSessions, q) = activeSessions
               /\ startQuizSessionAnnounces(activeSessions, q) = 0
        /\ ~HasSession(q) =>
               /\ DOMAIN startQuizSession(activeSessions, q) = Sessions \cup {q}
               /\ startQuizSession(activeSessions, q)[q] = NewSession(QuizDoc(q))
               /\ startQuizSessionAnnounces(activeSessions, q) = 1
        /\ announced[q] = Len(ended[q]) + (IF HasSession(q) THEN 1 ELSE 0)

\* C10 witness: a second start request is about to signal a quiz whose
\* session is locked and holds participants
C10_Witness ==
    \E q \in Sessions :
        /\ startReqs[q].saved > 0
        /\ activeSessions[q].locked
        /\ Len(activeSessions[q].participants) = 2
        /\ announced[q] = 1

\* C11 as stated: once a startQuiz request has succeeded (it has saved the
\* status RUNNING and has passed the call of the socket side), the quiz has a
\* session in the registry, or has had one, and quiz:announced has been sent
\* to the group room.
C11_StartRegistersSession ==
    \A q \in QuizIds :
        db[q].status = "RUNNING" /\ startReqs[q].saved = 0 =>
            /\ HasSession(q) \/ Len(ended[q]) >= 1
            /\ announced[q] >= 1

\* the leaderboard lb lists the participants ps: as many entries, every
\* participant in one of them with the participant's score and time
ListsEveryParticipant(lb, ps) ==
    /\ Len(lb) = Len(ps)
    /\ \A k \in 1 .. Len(ps) :
           \E idx \in 1 .. Len(lb) :
               /\ lb[idx].userId = ps[k].userId
               /\ lb[idx].score = ps[k].score
               /\ lb[idx].totalResponseTimeMs = ps[k].totalResponseTimeMs

\* the leaderboard lb is in order: ranks 1..N, no user twice, scores
\* descending and, among equal scores, times ascending
InRankOrder(lb) ==
    /\ \A idx \in 1 .. Len(lb) : lb[idx].rank = idx
    /\ \A i, j \in 1 .. Len(lb) : i # j => lb[i].userId # lb[j].userId
    /\ \A i, j \in 1 .. Len(lb) :
           i < j =>
               \/ lb[i].score > lb[j].score
               \/ /\ lb[i].score = lb[j].score
                  /\ lb[i].totalResponseTimeMs <= lb[j].totalResponseTimeMs

\* the participants of the example: scores 3, 3, 1 with times 500, 300, 100
ExampleParticipants ==
    <<[userId |-> "p1", score |-> 3, totalResponseTimeMs |-> 500, answers |-> <<>>],
      [userId |-> "p2", score |-> 3, totalResponseTimeMs |-> 300, answers |-> <<>>],
      [userId |-> "p3", score |-> 1, totalResponseTimeMs |-> 100, answers |-> <<>>]>>

\* C12: the leaderboard endQuiz builds lists every participant of the
\* session exactly once with the participant's score and time, ordered by
\* score descending and, among equal scores, by totalResponseTimeMs
\* ascending, with ranks 1..N in that order; every leaderboard broadcast with
\* quiz:ended is in that order; and scores 3, 3, 1 with times 500, 300, 100
\* rank as second, first, third participant.
C12_LeaderboardOrder ==
    /\ \A q \in Sessions :
           activeSessions[q].endPc # "none" =>
               /\ ListsEveryParticipant(activeSessions[q].ranked,
                                        activeSessions[q].participants)
               /\ InRankOrder(activeSessions[q].ranked)
    /\ \A q \in QuizIds : \A n \in 1 .. Len(ended[q]) : InRankOrder(ended[q][n])
    /\ Ranked([participants |-> ExampleParticipants]) =
           <<[rank |-> 1, userId |-> "p2", score |-> 3, totalResponseTimeMs |-> 300],
             [rank |-> 2, userId |-> "p1", score |-> 3, totalResponseTimeMs |-> 500],
             [rank |-> 3, userId |-> "p3", score |-> 1, totalResponseTimeMs |-> 100]>>

\* C12 witness: a leaderboard has been broadcast in which the participant
\* who joined second is ranked first, on a tie of scores broken by the time
C12_Witness ==
    \E q \in QuizIds :
        /\ Len(ended[q]) >= 1
        /\ Len(ended[q][1]) = 2
        /\ ended[q][1][1].score = ended[q][1][2].score
        /\ ended[q][1][1].score >= 1
        /\ ended[q][1][1].totalResponseTimeMs < ended[q][1][2].totalResponseTimeMs
        /\ Len(db[q].participants) = 2
        /\ db[q].participants[2].userId = ended[q][1][1].userId

\* the quiz with option k as the correct one of question i
WithCorrectIndex(quiz, i, k) ==
    [quiz EXCEPT !.questions[i + 1].correctIndex = k]

\* C13: the quiz:question payload in the room has no correctIndex field and
\* is the payload the question would have with any other option as the
\* correct one; quiz:question-result, which carries the correct index of
\* question i, has been sent for closed questions only, and for the open
\* question and the questions to come it has not been sent.
C13_KeyHiddenUntilClose ==
    \A q \in Sessions :
        LET session == activeSessions[q]
            current == session.currentQuestionIndex
        IN /\ "correctIndex" \notin DOMAIN session.sent.lastQuestion
           /\ session.started =>
                  /\ session.sent.lastQuestion = questionPayload(session.quiz, current)
                  /\ \A k \in 0 .. Question(session.quiz, current).options - 1 :
                         session.sent.lastQuestion =
                             questionPayload(WithCorrectIndex(session.quiz, current, k),
                                             current)
           /\ \A i \in 0 .. QuestionCount(session.quiz) - 1 :
                  /\ session.sent.result[i] >= 1 => IsClosed(q, i)
                  /\ IsClosed(q, i) =>
                         questionResultPayload(session, i).correctIndex
                             = Question(session.quiz, i).correctIndex

\* C13 witness: the second question is in the room and open, answered by a
\* participant, with the result of the first question sent and its own not
C13_Witness ==
    \E q \in Sessions :
        LET session == activeSessions[q]
        IN /\ session.currentQuestionIndex = 1
           /\ ~session.questionClosed
           /\ session.sent.lastQuestion.questionIndex = 1
           /\ session.sent.result[0] = 1
           /\ session.sent.result[1] = 0
           /\ \E u \in Admitted(q) : HasAnswer(q, u, 1)

\* user u may lock the session of q: the creator, or faculty, or admin
MayLock(u, q) ==
    \/ u = activeSessions[q].creatorId
    \/ roleOf[u] \in {"FACULTY", "ADMIN"}

\* C14: while a session is unlocked, a quiz:lock of a caller who is neither
\* the creator nor faculty nor admin is refused privately as unauthorized,
\* and one of the creator or of faculty or admin is not refused; an unlocked
\* session has sent neither quiz:locked nor a question and holds no timer.
C14_LockAuthorized ==
    \A q \in Sessions :
        LET session == activeSessions[q]
        IN ~session.locked =>
               /\ \A u \in Users :
                      IF MayLock(u, q)
                      THEN lockReply(u, q) = NoReply
                      ELSE lockReply(u, q) =
                               Error("Only the quiz creator, faculty, or admin can lock the quiz.")
               /\ session.sent.locked = 0
               /\ session.sent.roster = <<>>
               /\ SumCounts(session.sent.question) = 0
               /\ session.currentQuestionIndex = -1
               /\ timers[q] = <<>>

\* C14 witness: a lobby with both members admitted, where the student from
\* outside is refused the lock and the creator, a student too, is not
C14_Witness ==
    \E q \in Sessions :
        /\ ~activeSessions[q].locked
        /\ Len(activeSessions[q].participants) = 2
        /\ roleOf[Outsider] = "STUDENT"
        /\ roleOf[Creator] = "STUDENT"
        /\ lockReply(Outsider, q) =
               Error("Only the quiz creator, faculty, or admin can lock the quiz.")
        /\ lockReply(Creator, q) = NoReply

\* C15: each participant's score is the number of the participant's records
\* with isCorrect true and totalResponseTimeMs the sum of responseTimeMs over
\* those records; a record is correct exactly when its selectedIndex is the
\* question's correctIndex; and recording a first answer for the open
\* question raises the score by 1 and the total by the response time when
\* the option is the correct one, and changes neither when it is not.
C15_ScoreCountsCorrect ==
    \A q \in Sessions :
        LET session == activeSessions[q]
            current == session.currentQuestionIndex
            last == QuestionCount(session.quiz) - 1
        IN /\ \A k \in 1 .. Len(session.participants) :
                  LET p == session.participants[k]
                  IN /\ p.score = CorrectUpTo(p, last)
                     /\ p.totalResponseTimeMs = CorrectTimeUpTo(p, last)
                     /\ \A i \in DOMAIN p.answers :
                            p.answers[i].isCorrect <=>
                                p.answers[i].selectedIndex
                                    = Question(session.quiz, i).correctIndex
           /\ session.started /\ ~session.questionClosed =>
                  \A u \in Admitted(q) :
                      ~HasAnswer(q, u, current) =>
                          \A selectedIndex \in 0 .. Question(session.quiz, current).options - 1 :
                              LET before == GetParticipant(session, u)
                                  after == GetParticipant(
                                      recordAnswer(session, u, current, selectedIndex,
                                                   session.elapsedMs), u)
                                  correct == selectedIndex
                                      = Question(session.quiz, current).correctIndex
                              IN /\ after.score = before.score + (IF correct THEN 1 ELSE 0)
                                 /\ after.totalResponseTimeMs =
                                        before.totalResponseTimeMs
                                        + (IF correct THEN session.elapsedMs ELSE 0)

\* C15 witness: a participant holds a correct record and an incorrect one,
\* both with a positive response time, and the total is the correct one's
C15_Witness ==
    \E q \in Sessions, u \in Users :
        /\ HasAnswer(q, u, 0)
        /\ HasAnswer(q, u, 1)
        /\ LET p == GetParticipant(activeSessions[q], u)
           IN /\ p.answers[0].isCorrect
              /\ ~p.answers[1].isCorrect
              /\ p.answers[0].responseTimeMs > 0
              /\ p.answers[1].responseTimeMs > 0
              /\ p.score = 1
              /\ p.totalResponseTimeMs = p.answers[0].responseTimeMs

\* the participants of ps that hold a record for question i
Answerers(ps, i) == {k \in 1 .. Len(ps) : i \in DOMAIN ps[k].answers}

\* stats is a tally of question i of quiz over the participants ps: one
\* bucket per option, each bucket the number of participants whose record
\* selects that option, so that the buckets sum to the number of
\* participants with a record, which is at most the number of participants
TalliesAnswerers(stats, quiz, ps, i) ==
    /\ DOMAIN stats.optionCounts = 0 .. Question(quiz, i).options - 1
    /\ \A o \in DOMAIN stats.optionCounts :
           stats.optionCounts[o] =
               Cardinality({k \in Answerers(ps, i) : ps[k].answers[i].selectedIndex = o})
    /\ SumCounts(stats.optionCounts) = Cardinality(Answerers(ps, i))
    /\ SumCounts(stats.optionCounts) <= Len(ps)

\* C16: for every closed question the stored optionCounts, and for every
\* ended quiz the persisted optionCounts of each question, have one entry per
\* option, count under each option the participants whose record selects
\* it, and sum to the number of participants holding a record for the
\* question, never more than the number of participants; a participant
\* without a record is in no bucket.
C16_OptionCountsSum ==
    /\ \A q \in Sessions :
           \A i \in 0 .. QuestionCount(activeSessions[q].quiz) - 1 :
               IsClosed(q, i) =>
                   /\ i \in DOMAIN activeSessions[q].questionStats
                   /\ TalliesAnswerers(activeSessions[q].questionStats[i],
                                       activeSessions[q].quiz,
                                       activeSessions[q].participants, i)
    /\ \A q \in QuizIds :
           "ENDED" \in db[q].statusLog =>
               /\ DOMAIN db[q].stats = 0 .. QuestionCount(db[q]) - 1
               /\ \A i \in DOMAIN db[q].stats :
                      TalliesAnswerers(db[q].stats[i], db[q], db[q].participants, i)

\* C16 witness: an ended quiz with two participants persisted, of whom one
\* answered the first question: its persisted optionCounts sum to 1
C16_Witness ==
    \E q \in QuizIds :
        /\ db[q].status = "ENDED"
        /\ Len(db[q].participants) = 2
        /\ Cardinality(Answerers(db[q].participants, 0)) = 1
        /\ SumCounts(db[q].stats[0].optionCounts) = 1

\* C17 as stated: currentQuestionIndex is -1 until the first question is
\* out, lies between -1 and the question count, and once the session ends
\* (endQuiz has been entered) it equals the question count.
C17_IndexEndsAtCount ==
    \A q \in Sessions :
        LET session == activeSessions[q]
        IN /\ ~session.started => session.currentQuestionIndex = -1
           /\ session.currentQuestionIndex \in -1 .. QuestionCount(session.quiz)
           /\ session.endPc # "none" =>
                  session.currentQuestionIndex = QuestionCount(session.quiz)

\* C18 as stated: a quiz only moves forward: the persisted status never goes
\* back (not to CREATED once it was RUNNING, not away from ENDED), a started
\* session is locked, the participants of a locked session are those
\* admitted in the lobby (the roster sent at lock), and answers are held by
\* started sessions only.
C18_ForwardOnly ==
    /\ \A q \in QuizIds :
           /\ "RUNNING" \in db[q].statusLog => db[q].status # "CREATED"
           /\ "ENDED" \in db[q].statusLog => db[q].status = "ENDED"
    /\ \A q \in Sessions :
           LET session == activeSessions[q]
           IN /\ session.started => session.locked
              /\ session.locked => session.started
              /\ session.locked => ParticipantIds(session) = session.sent.roster
              /\ RecordCount(q) > 0 => session.started

\* a reason of the claim to refuse the quiz:answer c of user u
MustRefuse(u, c) ==
    \/ ~HasSession(c.quizId)
    \/ ~activeSessions[c.quizId].started
    \/ c.payload.questionIndex # activeSessions[c.quizId].currentQuestionIndex
    \/ u \notin Admitted(c.quizId)
    \/ activeSessions[c.quizId].questionClosed
    \/ c.payload.shape # "integers"
    \/ c.payload.selectedIndex \notin
           0 .. Question(activeSessions[c.quizId].quiz,
                         activeSessions[c.quizId].currentQuestionIndex).options - 1

\* C19: a quiz:answer is refused privately whenever there is no session for
\* the quiz id, or the session has not started, or the question index is not
\* the current one, or the user is not a participant, or the current question
\* is closed, or selectedIndex is no integer within the options; and the
\* only steps that add an answer, change a score or send quiz:score-update
\* come from a state where an answer is open to that user: session started,
\* question open, the user a participant without a record, the record taken
\* for the current index with a valid option.
C19_RefusedAnswers ==
    /\ [](\A u \in Users, c \in AnswerInputs :
             MustRefuse(u, c) =>
                 answerReply(u, c.quizId, c.payload.shape, c.payload.questionIndex,
                             c.payload.selectedIndex).event = "quiz:error")
    /\ [][\A q \in Sessions :
             q \in DOMAIN activeSessions' =>
                 \/ /\ activeSessions'[q].participants = activeSessions[q].participants
                    /\ activeSessions'[q].sent.scoreUpdate
                           = activeSessions[q].sent.scoreUpdate
                 \/ /\ ~activeSessions[q].locked
                    /\ activeSessions'[q].sent.scoreUpdate = 0
                    /\ \A k \in 1 .. Len(activeSessions'[q].participants) :
                           activeSessions'[q].participants[k].answers = <<>>
                 \/ /\ activeSessions[q].started
                    /\ ~activeSessions[q].questionClosed
                    /\ activeSessions'[q].sent.scoreUpdate
                           = activeSessions[q].sent.scoreUpdate + 1
                    /\ \E k \in 1 .. Len(activeSessions[q].participants) :
                           LET current == activeSessions[q].currentQuestionIndex
                               was == activeSessions[q].participants[k]
                               now == activeSessions'[q].participants[k]
                           IN /\ current \notin DOMAIN was.answers
                              /\ DOMAIN now.answers = DOMAIN was.answers \cup {current}
                              /\ now.answers[current].selectedIndex \in
                                     0 .. Question(activeSessions[q].quiz, current).options - 1
                              /\ \A i \in DOMAIN was.answers :
                                     now.answers[i] = was.answers[i]
                              /\ \A j \in 1 .. Len(activeSessions[q].participants) :
                                     j # k =>
                                         activeSessions'[q].participants[j]
                                             = activeSessions[q].participants[j]]_vars

\* C19 witness: the second question is open; a participant who never
\* answered the first is refused an answer for it (stale index), for the
\* question to come (future index) and for an option out of range, and the
\* student who never joined is refused too
C19_Witness ==
    \E q \in Sessions, u \in Users :
        /\ activeSessions[q].currentQuestionIndex = 1
        /\ ~activeSessions[q].questionClosed
        /\ u \in Admitted(q)
        /\ ~HasAnswer(q, u, 0)
        /\ ~HasAnswer(q, u, 1)
        /\ answerReply(u, q, "integers", 0, 0)
               = Error("Wrong question index - this question is not active.")
        /\ answerReply(u, q, "integers", 2, 0)
               = Error("Wrong question index - this question is not active.")
        /\ answerReply(u, q, "integers", 1, 2)
               = Error("selectedIndex must be between 0 and 1.")
        /\ answerReply(Outsider, q, "integers", 1, 0)
               = Error("You have not joined this quiz.")
        /\ answerReply(u, q, "integers", 1, 0) = AnswerAck

C21_OneDeadlineTimer ==
    \A q \in QuizIds :
        /\ Cardinality(DeadlineTimers(q)) <= 1
        /\ \A k \in DeadlineTimers(q) :
               /\ HasSession(q)
               /\ activeSessions[q].started
               /\ ~activeSessions[q].questionClosed
               /\ timers[q][k].index = activeSessions[q].currentQuestionIndex
               /\ timers[q][k].handle = activeSessions[q].questionTimer
        /\ HasSession(q) /\ activeSessions[q].questionClosed =>
               /\ DeadlineTimers(q) = {}
               /\ activeSessions[q].questionTimer = NoTimer
        /\ HasSession(q) /\ activeSessions[q].started
             /\ ~activeSessions[q].questionClosed =>
               Cardinality(DeadlineTimers(q)) = 1
        /\ ~HasSession(q) => timers[q] = <<>>

\* C21 witness: the first question was closed by the last answer before its
\* deadline, and the second question is open with its own deadline timer as
\* the only timer pending
C21_Witness ==
    \E q \in Sessions :
        LET session == activeSessions[q]
        IN /\ session.currentQuestionIndex = 1
           /\ ~session.questionClosed
           /\ Len(session.participants) = 2
           /\ \A u \in Admitted(q) :
                  /\ HasAnswer(q, u, 0)
                  /\ GetParticipant(session, u).answers[0].responseTimeMs
                         < Question(session.quiz, 0).timeLimit * 1000
           /\ Len(timers[q]) = 1
           /\ timers[q][1].kind = "deadline"
           /\ timers[q][1].index = 1

\* C22: while a quiz whose persisted status is RUNNING has no session in the
\* registry, the quiz:join of every member (or faculty, or admin) is
\* acknowledged with participantCount 0; joins register no session: every
\* session in the registry was announced by a start signal.
C22_JoinWithoutSession ==
    \A q \in QuizIds :
        /\ db[q].status = "RUNNING" /\ ~HasSession(q) =>
               \A u \in Users :
                   isMember(u) => joinReply(u, q, db[q].status, TRUE) = Joined(0)
        /\ HasSession(q) => announced[q] >= 1

\* C22 witness: a start request has finished, the status is RUNNING, the
\* registry is empty, and the creator's quiz:join is acknowledged with 0
C22_Witness ==
    \E q \in QuizIds :
        /\ db[q].status = "RUNNING"
        /\ startReqs[q].saved = 0
        /\ ~HasSession(q)
        /\ ended[q] = <<>>
        /\ joinReply(Creator, q, "RUNNING", TRUE) = Joined(0)

\* what the server holds for one quiz: its session, if registered, and the
\* timers of that session
SessionState(q) ==
    <<IF HasSession(q) THEN <<activeSessions[q]>> ELSE <<>>, timers[q]>>

\* C23: a step that changes the session of one quiz or its timers (a join, a
\* lock, an answer, a deadline, a close, an advance, the steps of endQuiz,
\* the registration) leaves the session and the timers of every other quiz
\* as they were: participants, scores, answers, question pointer, flags,
\* stats and timer
C23_SessionsIndependent ==
    [][\A a \in TwoQuizIds : \A b \in TwoQuizIds \ {a} :
          SessionState(a)' # SessionState(a) => SessionState(b)' = SessionState(b)]_vars

\* quizA has run to its end and left the registry while quizB, with the same
\* participant, still has its first question open and unanswered
C23_Witness ==
    /\ ended["quizA"] # <<>>
    /\ ~HasSession("quizA")
    /\ HasSession("quizB")
    /\ activeSessions["quizB"].currentQuestionIndex = 0
    /\ ~activeSessions["quizB"].questionClosed
    /\ ParticipantIds(activeSessions["quizB"]) = <<Creator>>
    /\ activeSessions["quizB"].participants[1].score = 0
    /\ Len(ended["quizA"][1]) = 1
    /\ ended["quizA"][1][1].score = 1

\* A and B are the participants of the locked session; A answered the first
\* question with option 1 after one second and B with option 0 after two
ScenarioPlayed(session) ==
    /\ session.locked
    /\ {session.participants[k].userId : k \in 1 .. Len(session.participants)}
           = {ScenarioA, ScenarioB}
    /\ Len(session.participants) = 2
    /\ 0 \in DOMAIN GetParticipant(session, ScenarioA).answers
    /\ GetParticipant(session, ScenarioA).answers[0].selectedIndex = 1
    /\ GetParticipant(session, ScenarioA).answers[0].responseTimeMs = 1000
    /\ 0 \in DOMAIN GetParticipant(session, ScenarioB).answers
    /\ GetParticipant(session, ScenarioB).answers[0].selectedIndex = 0
    /\ GetParticipant(session, ScenarioB).answers[0].responseTimeMs = 2000

\* C24: once A has answered the first question (3 options, correct 1, limit
\* 10 s) with option 1 at 1 s and B with option 0 at 2 s, the question is
\* closed at 2 s with its deadline timer cleared, its result was broadcast
\* once with optionCounts [1,1,0] and correctCount 1, A has score 1 and
\* totalResponseTimeMs 1000, and B has score 0 and totalResponseTimeMs 0
C24_Scenario ==
    \A q \in Sessions :
        ScenarioPlayed(activeSessions[q]) =>
            LET session == activeSessions[q]
                a == GetParticipant(session, ScenarioA)
                b == GetParticipant(session, ScenarioB)
            IN /\ a.answers[0].isCorrect /\ ~b.answers[0].isCorrect
               /\ a.score = 1 /\ a.totalResponseTimeMs = 1000
               /\ b.score = 0 /\ b.totalResponseTimeMs = 0
               /\ 0 \in DOMAIN session.questionStats
               /\ session.questionStats[0] =
                      [optionCounts |-> [o \in 0 .. 2 |-> IF o = 2 THEN 0 ELSE 1],
                       correctCount |-> 1]
               /\ session.sent.result[0] = 1
               /\ session.currentQuestionIndex = 0 =>
                      /\ session.questionClosed
                      /\ session.elapsedMs = 2000
                      /\ session.questionTimer = NoTimer
                      /\ DeadlineTimers(q) = {}

\* the scenario has been played and the pause before the second question
\* is running
C24_Witness ==
    \E q \in Sessions :
        /\ activeSessions[q].quiz.questions = ScenarioQuestions
        /\ ScenarioPlayed(activeSessions[q])
        /\ activeSessions[q].currentQuestionIndex = 0
        /\ \E k \in 1 .. Len(timers[q]) :
               timers[q][k].kind = "advance" /\ timers[q][k].delay = BETWEEN_QUESTIONS_MS

\* C25: the questions of a session are emitted in index order, each once and
\* only in a locked session: the emitted questions are 0 .. currentQuestionIndex;
\* a question is emitted only after the one before it was closed and its
\* result broadcast once; endQuiz runs, and so quiz:ended is emitted, only
\* after every question was emitted and closed
C25_QuestionsInOrder ==
    /\ \A q \in QuizIds :
           ended[q] # <<>> => DOMAIN db[q].stats = 0 .. QuestionCount(db[q]) - 1
    /\ \A q \in Sessions :
           LET session == activeSessions[q]
               n == QuestionCount(session.quiz)
           IN /\ \A i \in 0 .. n - 1 :
                     /\ session.sent.question[i] <= 1
                     /\ session.sent.question[i] = 1 <=> i <= session.currentQuestionIndex
                     /\ session.sent.question[i] = 1 => session.locked
                     /\ session.sent.result[i] <= session.sent.question[i]
                     /\ session.sent.result[i] = 1 <=> IsClosed(q, i)
                     /\ session.sent.result[i] = 1 <=> i \in DOMAIN session.questionStats
                     /\ i + 1 <= n - 1 /\ session.sent.question[i + 1] = 1 =>
                            session.sent.result[i] = 1
              /\ session.endPc # "none" =>
                     \A i \in 0 .. n - 1 :
                         session.sent.question[i] = 1 /\ session.sent.result[i] = 1
              /\ session.currentQuestionIndex \in -1 .. n - 1

\* the second question is open after the first was closed, with two participants
C25_Witness ==
    \E q \in Sessions :
        /\ activeSessions[q].currentQuestionIndex = 1
        /\ ~activeSessions[q].questionClosed
        /\ activeSessions[q].sent.question = [i \in 0 .. 1 |-> 1]
        /\ activeSessions[q].sent.result = [i \in 0 .. 1 |-> IF i = 0 THEN 1 ELSE 0]
        /\ Len(activeSessions[q].participants) = 2

\* every record of answers is for a question of the quiz and selects one of
\* that question's options
ValidRecords(answers, quiz) ==
    \A i \in DOMAIN answers :
        /\ HasQuestion(quiz, i)
        /\ answers[i].selectedIndex \in 0 .. Question(quiz, i).options - 1
        /\ answers[i].selectedIndex # -1

UserSet(entries) == {entries[k].userId : k \in 1 .. Len(entries)}

\* C27: the participants of a locked session are the roster that quiz:locked
\* broadcast, whatever joins run their synchronous part after the lock (a
\* join whose quiz lookup saw RUNNING before the lock included); the
\* leaderboard of endQuiz, its snapshot, the stored participant list and the
\* leaderboard of quiz:ended list those users and no others
C27_RosterFixedAfterLock ==
    /\ \A q \in Sessions :
           LET session == activeSessions[q]
               roster == {session.sent.roster[k] : k \in 1 .. Len(session.sent.roster)}
           IN /\ session.locked =>
                     /\ ParticipantIds(session) = session.sent.roster
                     /\ session.sent.locked = 1
              /\ ~session.locked => session.sent.roster = <<>>
              /\ session.endPc # "none" =>
                     /\ UserSet(session.ranked) = roster
                     /\ Len(session.ranked) = Len(session.sent.roster)
              /\ session.endPc \in {"save", "saved"} =>
                     UserSet(session.snapshot.participants) = roster
              /\ session.endPc = "saved" => UserSet(db[q].participants) = roster
    /\ \A q \in QuizIds :
           ended[q] # <<>> =>
               /\ UserSet(ended[q][1]) = UserSet(db[q].participants)
               /\ Len(ended[q][1]) = Len(db[q].participants)

\* the creator alone was admitted when the lobby was locked; endQuiz has
\* stored the results; a join of the moderator whose lookup saw RUNNING is
\* refused by the locked session; the leaderboard and the stored list hold
\* the creator alone
C27_Witness ==
    \E q \in Sessions :
        /\ activeSessions[q].endPc = "saved"
        /\ activeSessions[q].sent.roster = <<Creator>>
        /\ UserSet(activeSessions[q].ranked) = {Creator}
        /\ UserSet(db[q].participants) = {Creator}
        /\ isMember(Staff)
        /\ joinReply(Staff, q, "RUNNING", TRUE) =
               Error("Lobby is locked. The quiz has already begun.")

\* C28: whenever the stored status is RUNNING and a quiz:join of user u would
\* be acknowledged with quiz:joined, the session is registered, so that the
\* join enters u in its participants: no acknowledged join finds the
\* registry without the session
C28_AcknowledgedJoinAdmits ==
    \A q \in QuizIds : \A u \in Users :
        /\ db[q].status = "RUNNING"
        /\ joinReply(u, q, db[q].status, TRUE).event = "quiz:joined"
        => /\ HasSession(q)
           /\ HasParticipant(addParticipant(activeSessions[q], u), u)

\* a leaderboard and a participant list hold the same users with the same
\* score and totalResponseTimeMs
SameResults(lb, ps) ==
    /\ Len(lb) = Len(ps)
    /\ \A k \in 1 .. Len(lb) : \E j \in 1 .. Len(ps) :
           /\ ps[j].userId = lb[k].userId
           /\ ps[j].score = lb[k].score
           /\ ps[j].totalResponseTimeMs = lb[k].totalResponseTimeMs
    /\ \A j \in 1 .. Len(ps) : \E k \in 1 .. Len(lb) : lb[k].userId = ps[j].userId

\* C29: while an endQuiz run awaits the store, the participants and the
\* question stats of its session stay what they were when the leaderboard
\* was ranked, and no timer of the session is pending; the snapshot it
\* stores and the leaderboard it broadcasts in quiz:ended agree on every
\* participant's score and totalResponseTimeMs
C29_LeaderboardMatchesStore ==
    /\ \A q \in Sessions :
           LET session == activeSessions[q]
           IN /\ session.endPc # "none" =>
                     /\ session.ranked = Ranked(session)
                     /\ SameResults(session.ranked, session.participants)
                     /\ timers[q] = <<>>
                     /\ session.locked /\ session.questionClosed
              /\ session.endPc \in {"save", "saved"} =>
                     /\ session.snapshot.participants = SnapshotParticipants(session)
                     /\ session.snapshot.stats = session.questionStats
                     /\ SameResults(session.ranked, session.snapshot.participants)
              /\ session.endPc = "saved" =>
                     /\ SameResults(session.ranked, db[q].participants)
                     /\ db[q].stats = session.questionStats
    /\ \A q \in QuizIds :
           ended[q] # <<>> /\ ~HasSession(q) =>
               SameResults(ended[q][Len(ended[q])], db[q].participants)

\* quiz:ended was broadcast with two participants of different scores, one
\* of them with a response time, and the store holds the same results
C29_Witness ==
    \E q \in QuizIds :
        /\ ended[q] # <<>>
        /\ Len(ended[q][1]) = 2
        /\ ended[q][1][1].score = 2
        /\ ended[q][1][1].totalResponseTimeMs > 0
        /\ ended[q][1][2].score = 1
        /\ SameResults(ended[q][1], db[q].participants)
        /\ db[q].status = "ENDED"

\* C30: in the fixed-window handler, for every question index of a session
\* quiz:question-result is broadcast at most once and quiz:question is
\* emitted at most once
C30_OncePerIndexFW ==
    \A q \in Sessions :
        \A i \in 0 .. QuestionCount(activeSessions[q].quiz) - 1 :
            /\ activeSessions[q].sent.result[i] <= 1
            /\ activeSessions[q].sent.question[i] <= 1

\* C31: between handlers, a session of a quiz with at least one question has
\* started equal to locked; a started session has its currentQuestionIndex
\* among the quiz's questions; before the lock currentQuestionIndex is -1,
\* questionStats is empty, nothing was emitted, and every participant has
\* score 0, no response time and no answer
C31_StartedIffLocked ==
    \A q \in Sessions :
        LET session == activeSessions[q]
        IN QuestionCount(session.quiz) >= 1 =>
              /\ session.started = session.locked
              /\ session.started =>
                     /\ session.currentQuestionIndex >= 0
                     /\ session.currentQuestionIndex < QuestionCount(session.quiz)
              /\ ~session.locked =>
                     /\ session.currentQuestionIndex = -1
                     /\ session.questionStats = <<>>
                     /\ session.questionTimer = NoTimer
                     /\ SumCounts(session.sent.question) = 0
                     /\ \A k \in 1 .. Len(session.participants) :
                            /\ session.participants[k].answers = <<>>
                            /\ session.participants[k].score = 0
                            /\ session.participants[k].totalResponseTimeMs = 0

\* a locked and started session is at its last question, closed, with a
\* participant who scored on both questions
C31_Witness ==
    \E q \in Sessions :
        /\ activeSessions[q].locked /\ activeSessions[q].started
        /\ activeSessions[q].currentQuestionIndex = QuestionCount(activeSessions[q].quiz) - 1
        /\ activeSessions[q].questionClosed
        /\ \E k \in 1 .. Len(activeSessions[q].participants) :
               activeSessions[q].participants[k].score = 2

\* the records the participants ps hold for question i, by user
LedgerFor(ps, i) ==
    {<<ps[k].userId, ps[k].answers[i]>> :
        k \in {j \in 1 .. Len(ps) : i \in DOMAIN ps[j].answers}}

\* C32: a participant holds records only for questions up to the current one;
\* questionStats has an entry for exactly the closed questions, each written
\* once and equal to the tally of the records held for that question, in the
\* session and in the store; and no step adds or changes a record of a
\* closed question or changes its stats entry
C32_LedgerFrozenAtClose ==
    /\ [](/\ \A q \in Sessions :
               LET session == activeSessions[q]
               IN /\ \A k \in 1 .. Len(session.participants) :
                         \A i \in DOMAIN session.participants[k].answers :
                             i >= 0 /\ i <= session.currentQuestionIndex
                  /\ \A i \in 0 .. QuestionCount(session.quiz) - 1 :
                         /\ i \in DOMAIN session.questionStats <=> IsClosed(q, i)
                         /\ session.statsWrites[i] = (IF IsClosed(q, i) THEN 1 ELSE 0)
                         /\ i \in DOMAIN session.questionStats =>
                                session.questionStats[i] = QuestionTally(session, i)
          /\ \A q \in QuizIds :
               \A i \in DOMAIN db[q].stats :
                   db[q].stats[i] =
                       QuestionTally([quiz |-> db[q],
                                      participants |-> db[q].participants], i))
    /\ [][\A q \in Sessions :
             q \in DOMAIN activeSessions' =>
                 \A i \in 0 .. QuestionCount(activeSessions[q].quiz) - 1 :
                     IsClosed(q, i) =>
                         /\ LedgerFor(activeSessions'[q].participants, i)
                                = LedgerFor(activeSessions[q].participants, i)
                         /\ i \in DOMAIN activeSessions'[q].questionStats
                         /\ activeSessions'[q].questionStats[i]
                                = activeSessions[q].questionStats[i]]_vars

\* the second question is open and answered by one participant; the first
\* was closed by its deadline with one of two participants having answered
\* it, and its stats entry counts that one answer
C32_Witness ==
    \E q \in Sessions :
        LET session == activeSessions[q]
        IN /\ session.currentQuestionIndex = 1
           /\ ~session.questionClosed
           /\ Len(session.participants) = 2
           /\ Cardinality(LedgerFor(session.participants, 0)) = 1
           /\ Cardinality(LedgerFor(session.participants, 1)) = 1
           /\ DOMAIN session.questionStats = {0}
           /\ SumCounts(session.questionStats[0].optionCounts) = 1

\* the participants among ps whose score question i raised: those holding a
\* correct record for it
RaisedBy(ps, i) ==
    {k \in 1 .. Len(ps) : i \in DOMAIN ps[k].answers /\ ps[k].answers[i].isCorrect}

\* the sum of the scores of the participants ps[1 .. n]
RECURSIVE ScoresUpTo(_, _)
ScoresUpTo(ps, n) == IF n = 0 THEN 0 ELSE ps[n].score + ScoresUpTo(ps, n - 1)

\* the number of score raises by the questions 0 .. i
RECURSIVE RaisesUpTo(_, _)
RaisesUpTo(ps, i) ==
    IF i < 0 THEN 0 ELSE Cardinality(RaisedBy(ps, i)) + RaisesUpTo(ps, i - 1)

\* the stats entry of question i of quiz agrees with the participants ps
StatsAgree(stats, quiz, ps, i) ==
    /\ stats[i].correctCount = stats[i].optionCounts[Question(quiz, i).correctIndex]
    /\ stats[i].correctCount = Cardinality(RaisedBy(ps, i))

\* C33: for every closed question, in the session and in the store,
\* correctCount equals the optionCounts entry of the question's correct
\* option and the number of participants holding a correct record for it;
\* every score is made of such raises alone: the scores sum to the number of
\* correct records
C33_CorrectCountMatches ==
    /\ \A q \in Sessions :
           LET session == activeSessions[q]
           IN /\ \A i \in DOMAIN session.questionStats :
                     /\ IsClosed(q, i)
                     /\ StatsAgree(session.questionStats, session.quiz,
                                   session.participants, i)
              /\ ScoresUpTo(session.participants, Len(session.participants))
                     = RaisesUpTo(session.participants, QuestionCount(session.quiz) - 1)
    /\ \A q \in QuizIds :
           /\ \A i \in DOMAIN db[q].stats :
                  StatsAgree(db[q].stats, db[q], db[q].participants, i)
           /\ ScoresUpTo(db[q].participants, Len(db[q].participants))
                  = RaisesUpTo(db[q].participants, QuestionCount(db[q]) - 1)

\* the first question is closed with one correct and one wrong answer, and
\* its stats entry has correctCount 1
C33_Witness ==
    \E q \in Sessions :
        LET session == activeSessions[q]
        IN /\ IsClosed(q, 0)
           /\ 0 \in DOMAIN session.questionStats
           /\ Cardinality(LedgerFor(session.participants, 0)) = 2
           /\ Cardinality(RaisedBy(session.participants, 0)) = 1
           /\ session.questionStats[0].correctCount = 1
           /\ SumCounts(session.questionStats[0].optionCounts) = 2

\* a session locked while nobody had joined
LockedEmpty(q) ==
    /\ HasSession(q)
    /\ activeSessions[q].locked
    /\ activeSessions[q].sent.roster = <<>>

\* in a session locked with nobody in it no answer is ever recorded, every
\* closed question was closed by its deadline (at its time limit, the timer
\* gone) with all counts zero, and the leaderboard of endQuiz is empty
EmptyQuizClosesByTimer(q) ==
    LET session == activeSessions[q]
    IN /\ session.participants = <<>>
       /\ session.sent.scoreUpdate = 0
       /\ \A i \in DOMAIN session.questionStats :
              /\ SumCounts(session.questionStats[i].optionCounts) = 0
              /\ session.questionStats[i].correctCount = 0
       /\ session.questionClosed =>
              /\ session.elapsedMs >=
                     Question(session.quiz, session.currentQuestionIndex).timeLimit * 1000
              /\ session.questionTimer = NoTimer
       /\ session.endPc # "none" => session.ranked = <<>>

\* C34 as stated: in a session locked with zero participants every question
\* closes by timer expiry alone, with all optionCounts zero, and the quiz
\* ends: quiz:ended is broadcast with an empty leaderboard and the session
\* has left the registry
C34_EmptyQuizEnds ==
    /\ [](\A q \in QuizIds : LockedEmpty(q) => EmptyQuizClosesByTimer(q))
    /\ \A q \in QuizIds :
           LockedEmpty(q) ~>
               (~HasSession(q) /\ Len(ended[q]) >= 1 /\ ended[q][Len(ended[q])] = <<>>)

\* a leaderboard of getQuizResults without the answers it adds to each entry
WithoutAnswers(lb) ==
    [idx \in 1 .. Len(lb) |->
        [rank |-> lb[idx].rank,
         userId |-> lb[idx].userId,
         score |-> lb[idx].score,
         totalResponseTimeMs |-> lb[idx].totalResponseTimeMs]]

\* C35: once quiz:ended was broadcast and the store holds the snapshot of
\* that endQuiz run, getQuizResults answers every member with a leaderboard
\* that lists the users of the quiz:ended leaderboard in the same order with
\* the same rank, score and totalResponseTimeMs, and refuses a user outside
\* the group
C35_ResultsMatchEnded ==
    \A q \in QuizIds :
        ended[q] # <<>> /\ db[q].status = "ENDED" =>
            \A u \in Users :
                IF isMember(u)
                THEN /\ getQuizResultsReply(u, q, TRUE).event = "200"
                     /\ WithoutAnswers(getQuizResultsReply(u, q, TRUE).leaderboard)
                            = ended[q][Len(ended[q])]
                ELSE getQuizResultsReply(u, q, TRUE).event = "403"

\* quiz:ended listed two participants tied on a positive score and on the
\* response time, and the results endpoint lists them in the same order
C35_Witness ==
    \E q \in QuizIds :
        /\ ended[q] # <<>>
        /\ db[q].status = "ENDED"
        /\ Len(ended[q][1]) = 2
        /\ ended[q][1][1].score = ended[q][1][2].score
        /\ ended[q][1][1].score >= 1
        /\ ended[q][1][1].totalResponseTimeMs = ended[q][1][2].totalResponseTimeMs
        /\ ended[q][1][1].userId = Staff
        /\ WithoutAnswers(getQuizResultsReply(Creator, q, TRUE).leaderboard) = ended[q][1]

====
